---------------------------- MODULE Spec2Model ----------------------------
(***************************************************************************)
(* The voice-interview session view (components/Agent.tsx) with its two    *)
(* hooks, hooks/useVapiCalls.ts and hooks/useInterviewData.ts.             *)
(*                                                                         *)
(* One action is one JavaScript task: an event handler of the voice        *)
(* provider, a click handler, the continuation of an await, a timer        *)
(* callback, or one run of the terminal-state effect.  React 18 batches    *)
(* the state setters of one task into one render, so the variables hold    *)
(* the rendered state after each task.                                     *)
(*                                                                         *)
(* JavaScript strings are sequences of one-character strings, so that      *)
(* String.prototype.includes, === and truthiness are computed.  An         *)
(* optional value (string | null, string | undefined) is the empty         *)
(* sequence (absent) or a one-element sequence holding the value.          *)
(***************************************************************************)
EXTENDS Integers, Sequences, FiniteSets, TLC

\* ------------------------------------------------------------------ bounds
MaxMessages == 2      \* final transcript fragments received in one view
MaxPending == 1       \* session-start requests awaiting the provider at once
MaxInterviews == 1    \* documents of the collection "interviews"
MaxQuestionLen == 4   \* characters of a question handed to sanitizeQuestions
MaxClock == 3         \* readings of the server's clock by createFeedback
MaxSignUps == 2       \* calls of signUp, finished or in progress

\* ----------------------------------------------------------------- strings
None == <<>>
Some(x) == <<x>>
IsSome(o) == o # <<>>
The(o) == o[1]

\* JavaScript truthiness of an optional string: defined and not ""
Truthy(o) == IsSome(o) /\ The(o) # <<>>

\* s.includes(t)
Includes(s, t) ==
  \E i \in 0..(Len(s) - Len(t)) : SubSeq(s, i + 1, i + Len(t)) = t

MeetingHasEnded ==
  <<"M","e","e","t","i","n","g"," ","h","a","s"," ","e","n","d","e","d">>
DefaultServiceError ==
  <<"A","n"," ","e","r","r","o","r"," ","o","c","c","u","r","r","e","d"," ","w","i","t","h"," ","t","h","e"," ","i","n","t","e","r","v","i","e","w"," ","s","e","r","v","i","c","e">>
MissingInterviewData ==
  <<"M","i","s","s","i","n","g"," ","i","n","t","e","r","v","i","e","w"," ","d","a","t","a"," ","f","o","r"," ","f","e","e","d","b","a","c","k"," ","g","e","n","e","r","a","t","i","o","n">>
FailedToCreateFeedback ==
  <<"F","a","i","l","e","d"," ","t","o"," ","c","r","e","a","t","e"," ","f","e","e","d","b","a","c","k","."," ","P","l","e","a","s","e"," ","t","r","y"," ","a","g","a","i","n",".">>
ErrorCreatingFeedbackPrefix ==
  <<"E","r","r","o","r"," ","c","r","e","a","t","i","n","g"," ","f","e","e","d","b","a","c","k",":"," ">>
FailedToCreateInterview ==
  <<"F","a","i","l","e","d"," ","t","o"," ","c","r","e","a","t","e"," ","i","n","t","e","r","v","i","e","w">>

\* --------------------------------------------- values the provider can throw
\* An error value is a string, an object with optional errorMsg,
\* error.errorMsg and message, or undefined.
StrError(s) ==
  [kind |-> "string", str |-> Some(s), errorMsg |-> None, nested |-> None, message |-> None]
ObjError(em, ne, msg) ==
  [kind |-> "object", str |-> None, errorMsg |-> em, nested |-> ne, message |-> msg]
UndefinedError ==
  [kind |-> "undefined", str |-> None, errorMsg |-> None, nested |-> None, message |-> None]

Boom == <<"b","o","o","m">>
WrappedMeetingHasEnded == <<"x",":"," ">> \o MeetingHasEnded
LowerMeetingHasEnded == <<"m">> \o Tail(MeetingHasEnded)

VapiErrors ==
  { StrError(<<>>), StrError(Boom), StrError(MeetingHasEnded),
    StrError(WrappedMeetingHasEnded), StrError(LowerMeetingHasEnded),
    ObjError(Some(MeetingHasEnded), None, None),
    ObjError(None, Some(MeetingHasEnded), None),
    ObjError(None, None, Some(WrappedMeetingHasEnded)),
    ObjError(Some(WrappedMeetingHasEnded), None, None),
    ObjError(Some(Boom), None, None),
    ObjError(None, None, Some(Boom)),
    ObjError(Some(<<>>), None, Some(<<>>)),
    ObjError(None, None, None),
    UndefinedError }

\* the two classes of error value, one representative each
LifecycleErrors ==
  { StrError(Boom), ObjError(Some(MeetingHasEnded), None, None) }

\* ------------------------------------------- hooks/useInterviewData.ts
UpperAlpha ==
  <<"A","B","C","D","E","F","G","H","I","J","K","L","M","N","O","P","Q","R","S","T","U","V","W","X","Y","Z">>
LowerAlpha ==
  <<"a","b","c","d","e","f","g","h","i","j","k","l","m","n","o","p","q","r","s","t","u","v","w","x","y","z">>
DigitChars == <<"0","1","2","3","4","5","6","7","8","9">>

\* String.prototype.toLowerCase on the letters A-Z
ToLowerCase(s) ==
  [i \in 1..Len(s) |->
     IF \E k \in 1..Len(UpperAlpha) : UpperAlpha[k] = s[i]
     THEN LowerAlpha[CHOOSE k \in 1..Len(UpperAlpha) : UpperAlpha[k] = s[i]]
     ELSE s[i]]

IsDigit(c) == \E k \in 1..Len(DigitChars) : DigitChars[k] = c
DigitValue(c) == (CHOOSE k \in 1..Len(DigitChars) : DigitChars[k] = c) - 1

\* content.match(/\d+/): the first maximal run of digits, None when there is none
FirstNumber(s) ==
  IF \E i \in 1..Len(s) : IsDigit(s[i])
  THEN LET a == CHOOSE i \in 1..Len(s) :
                  IsDigit(s[i]) /\ \A j \in 1..(i - 1) : ~IsDigit(s[j])
           b == CHOOSE j \in a..Len(s) :
                  /\ \A k \in a..j : IsDigit(s[k])
                  /\ (j = Len(s) \/ ~IsDigit(s[j + 1]))
       IN Some(SubSeq(s, a, b))
  ELSE None

\* parseInt(digits, 10)
RECURSIVE ParseInt(_)
ParseInt(d) ==
  IF d = <<>> THEN 0
  ELSE 10 * ParseInt(SubSeq(d, 1, Len(d) - 1)) + DigitValue(d[Len(d)])

techKeywords ==
  << <<"n","e","x","t",".","j","s">>,
     <<"r","e","a","c","t">>,
     <<"j","a","v","a","s","c","r","i","p","t">>,
     <<"t","y","p","e","s","c","r","i","p","t">>,
     <<"n","o","d","e">>,
     <<"v","u","e">>,
     <<"a","n","g","u","l","a","r">>,
     <<"h","t","m","l">>,
     <<"c","s","s">>,
     <<"t","a","i","l","w","i","n","d">>,
     <<"b","o","o","t","s","t","r","a","p">>,
     <<"p","y","t","h","o","n">>,
     <<"d","j","a","n","g","o">>,
     <<"r","u","b","y">>,
     <<"r","a","i","l","s">> >>

\* techKeywords.filter(tech => lowerContent.includes(tech.toLowerCase()))
RECURSIVE FoundTech(_, _)
FoundTech(lowerContent, k) ==
  IF k > Len(techKeywords) THEN <<>>
  ELSE (IF Includes(lowerContent, ToLowerCase(techKeywords[k]))
        THEN <<techKeywords[k]>> ELSE <<>>)
       \o FoundTech(lowerContent, k + 1)

\* Array.prototype.join(",")
RECURSIVE Join(_)
Join(xs) ==
  IF xs = <<>> THEN <<>>
  ELSE IF Len(xs) = 1 THEN xs[1]
  ELSE xs[1] \o <<",">> \o Join(Tail(xs))

\* useRef<InterviewData>({...}): the record a view starts with
DefaultInterviewData ==
  [role |-> "", type |-> "mixed", level |-> "", techstack |-> <<>>, amount |-> 5]

\* extractDataFromMessage: transcript is the optional message.transcript,
\* data the record held by the ref; the result is the record afterwards.
extractDataFromMessage(transcript, data) ==
  IF ~Truthy(transcript) THEN data
  ELSE
  LET content == The(transcript)
      lowerContent == ToLowerCase(content)
      has(k) == Includes(content, k)
      lhas(k) == Includes(lowerContent, k)
      role ==
        IF has(<<"r","o","l","e">>) /\ data.role = ""
        THEN IF lhas(<<"f","r","o","n","t"," ","e","n","d">>)
                \/ lhas(<<"f","r","o","n","t","e","n","d">>)
             THEN "Frontend Developer"
             ELSE IF lhas(<<"b","a","c","k"," ","e","n","d">>)
                     \/ lhas(<<"b","a","c","k","e","n","d">>)
             THEN "Backend Developer"
             ELSE IF lhas(<<"f","u","l","l"," ","s","t","a","c","k">>)
                     \/ lhas(<<"f","u","l","l","s","t","a","c","k">>)
             THEN "Full Stack Developer"
             ELSE data.role
        ELSE data.role
      level ==
        IF has(<<"l","e","v","e","l">>)
           \/ has(<<"e","x","p","e","r","i","e","n","c","e">>)
        THEN IF lhas(<<"e","n","t","r","y"," ","l","e","v","e","l">>)
                \/ lhas(<<"j","u","n","i","o","r">>)
             THEN "entry"
             ELSE IF lhas(<<"m","i","d">>)
                     \/ lhas(<<"i","n","t","e","r","m","e","d","i","a","t","e">>)
             THEN "mid"
             ELSE IF lhas(<<"s","e","n","i","o","r">>)
                     \/ lhas(<<"e","x","p","e","r","t">>)
             THEN "senior"
             ELSE data.level
        ELSE data.level
      type_ ==
        IF has(<<"t","e","c","h","n","i","c","a","l">>)
           \/ has(<<"b","e","h","a","v","i","o","r","a","l">>)
           \/ has(<<"m","i","x","e","d">>)
        THEN IF lhas(<<"t","e","c","h","n","i","c","a","l">>) THEN "technical"
             ELSE IF lhas(<<"b","e","h","a","v","i","o","r","a","l">>) THEN "behavioral"
             ELSE IF lhas(<<"m","i","x","e","d">>) THEN "mixed"
             ELSE data.type
        ELSE data.type
      numberMatch == FirstNumber(content)
      amount ==
        IF IsSome(numberMatch) /\ has(<<"q","u","e","s","t","i","o","n">>)
        THEN ParseInt(The(numberMatch))
        ELSE data.amount
      foundTech == FoundTech(lowerContent, 1)
      techstack ==
        IF (has(<<"t","e","c","h","n","o","l","o","g","i","e","s">>)
            \/ has(<<"t","e","c","h"," ","s","t","a","c","k">>))
           /\ Len(foundTech) > 0
        THEN Join(foundTech)
        ELSE data.techstack
  IN [role |-> role, type |-> type_, level |-> level,
      techstack |-> techstack, amount |-> amount]

\* ------------------------------------------------------- JSON.parse, trim
\* The texts of the model hold no escape sequence, no fraction and no
\* exponent; everything else of the JSON grammar is parsed.
\* the grave accent, which a string of this language cannot hold
Backtick == "grave"

Whitespace == {" ", "\n", "\r", "\t"}
IsWs(c) == c \in Whitespace

\* String.prototype.trim
Trim(s) ==
  IF \A i \in 1..Len(s) : IsWs(s[i]) THEN <<>>
  ELSE LET a == CHOOSE i \in 1..Len(s) :
                  ~IsWs(s[i]) /\ \A j \in 1..(i - 1) : IsWs(s[j])
           b == CHOOSE i \in 1..Len(s) :
                  ~IsWs(s[i]) /\ \A j \in (i + 1)..Len(s) : IsWs(s[j])
       IN SubSeq(s, a, b)

\* the values JSON.parse returns
JNull == [t |-> "null"]
JBool(b) == [t |-> "boolean", v |-> b]
JNum(n) == [t |-> "number", v |-> n]
JStr(s) == [t |-> "string", v |-> s]
JArr(xs) == [t |-> "array", v |-> xs]
JObj(ms) == [t |-> "object", v |-> ms]   \* ms: <<[key, value], ...>>

\* the result of a parsing step: the value and the position after it
Parsed(v, i) == [ok |-> TRUE, v |-> v, i |-> i]
Fail == [ok |-> FALSE]

\* the first position from i that holds no whitespace
SkipWs(s, i) ==
  IF \E j \in i..Len(s) : ~IsWs(s[j])
  THEN CHOOSE j \in i..Len(s) : ~IsWs(s[j]) /\ \A k \in i..(j - 1) : IsWs(s[k])
  ELSE Len(s) + 1

StartsAt(s, i, lit) ==
  i + Len(lit) - 1 <= Len(s) /\ SubSeq(s, i, i + Len(lit) - 1) = lit

\* a string literal whose opening quote is at i
ParseStringAt(s, i) ==
  IF \E j \in (i + 1)..Len(s) : s[j] = "\""
  THEN LET j == CHOOSE j \in (i + 1)..Len(s) :
                  s[j] = "\"" /\ \A k \in (i + 1)..(j - 1) : s[k] # "\""
           body == SubSeq(s, i + 1, j - 1)
       IN IF \E k \in 1..Len(body) : body[k] \in {"\n", "\r", "\t"}
          THEN Fail
          ELSE Parsed(JStr(body), j + 1)
  ELSE Fail

\* an integer literal at i
ParseNumberAt(s, i) ==
  LET a == IF s[i] = "-" THEN i + 1 ELSE i
  IN IF a > Len(s) \/ ~IsDigit(s[a]) THEN Fail
     ELSE LET b == IF s[a] = "0" THEN a
                   ELSE CHOOSE j \in a..Len(s) :
                          /\ \A k \in a..j : IsDigit(s[k])
                          /\ (j = Len(s) \/ ~IsDigit(s[j + 1]))
              n == ParseInt(SubSeq(s, a, b))
          IN Parsed(JNum(IF a > i THEN 0 - n ELSE n), b + 1)

RECURSIVE ParseValue(_, _), ParseElements(_, _, _), ParseMembers(_, _, _)

\* a value at i
ParseValue(s, i) ==
  IF i > Len(s) THEN Fail
  ELSE IF s[i] = "\"" THEN ParseStringAt(s, i)
  ELSE IF s[i] = "-" \/ IsDigit(s[i]) THEN ParseNumberAt(s, i)
  ELSE IF StartsAt(s, i, <<"n","u","l","l">>) THEN Parsed(JNull, i + 4)
  ELSE IF StartsAt(s, i, <<"t","r","u","e">>) THEN Parsed(JBool(TRUE), i + 4)
  ELSE IF StartsAt(s, i, <<"f","a","l","s","e">>) THEN Parsed(JBool(FALSE), i + 5)
  ELSE IF s[i] = "["
  THEN LET j == SkipWs(s, i + 1)
       IN IF j <= Len(s) /\ s[j] = "]" THEN Parsed(JArr(<<>>), j + 1)
          ELSE ParseElements(s, j, <<>>)
  ELSE IF s[i] = "{"
  THEN LET j == SkipWs(s, i + 1)
       IN IF j <= Len(s) /\ s[j] = "}" THEN Parsed(JObj(<<>>), j + 1)
          ELSE ParseMembers(s, j, <<>>)
  ELSE Fail

\* the elements of an array from i, after the elements acc
ParseElements(s, i, acc) ==
  LET r == ParseValue(s, i)
  IN IF ~r.ok THEN Fail
     ELSE LET j == SkipWs(s, r.i)
          IN IF j > Len(s) THEN Fail
             ELSE IF s[j] = "]" THEN Parsed(JArr(Append(acc, r.v)), j + 1)
             ELSE IF s[j] = ","
             THEN ParseElements(s, SkipWs(s, j + 1), Append(acc, r.v))
             ELSE Fail

\* the members of an object from i, after the members acc
ParseMembers(s, i, acc) ==
  IF i > Len(s) \/ s[i] # "\"" THEN Fail
  ELSE
  LET k == ParseStringAt(s, i)
  IN IF ~k.ok THEN Fail
     ELSE
     LET c == SkipWs(s, k.i)
     IN IF c > Len(s) \/ s[c] # ":" THEN Fail
        ELSE
        LET r == ParseValue(s, SkipWs(s, c + 1))
        IN IF ~r.ok THEN Fail
           ELSE
           LET j == SkipWs(s, r.i)
               acc2 == Append(acc, [key |-> k.v.v, value |-> r.v])
           IN IF j > Len(s) THEN Fail
              ELSE IF s[j] = "}" THEN Parsed(JObj(acc2), j + 1)
              ELSE IF s[j] = ","
              THEN ParseMembers(s, SkipWs(s, j + 1), acc2)
              ELSE Fail

\* JSON.parse(s): ok is FALSE when it throws a SyntaxError
JSONParse(s) ==
  LET r == ParseValue(s, SkipWs(s, 1))
  IN IF r.ok /\ SkipWs(s, r.i) > Len(s)
     THEN [ok |-> TRUE, v |-> r.v]
     ELSE [ok |-> FALSE]

\* Array.isArray
IsArray(v) == v.t = "array"

\* typeof v === "string" for every element of the array v
AllStrings(v) == \A k \in 1..Len(v.v) : v.v[k].t = "string"

\* the strings of an array of strings
Strings(v) == [k \in 1..Len(v.v) |-> v.v[k].v]

\* o.name of the object o: None when the property is absent
Prop(o, name) ==
  IF o.t = "object" /\ \E k \in 1..Len(o.v) : o.v[k].key = name
  THEN LET k == CHOOSE k \in 1..Len(o.v) :
                  o.v[k].key = name
                  /\ \A h \in (k + 1)..Len(o.v) : o.v[h].key # name
       IN Some(o.v[k].value)
  ELSE None

\* ---------------------------------------- app/api/vapi/generate/route.ts
\* String.prototype.replace(/[chars]/g, rep)
RECURSIVE ReplaceAll(_, _, _)
ReplaceAll(s, chars, rep) ==
  IF s = <<>> THEN <<>>
  ELSE (IF Head(s) \in chars THEN rep ELSE <<Head(s)>>)
       \o ReplaceAll(Tail(s), chars, rep)

\* String.prototype.replace(/\s+/g, " ")
RECURSIVE CollapseWhitespace(_)
CollapseWhitespace(s) ==
  IF s = <<>> THEN <<>>
  ELSE IF IsWs(Head(s))
  THEN <<" ">> \o CollapseWhitespace(SubSeq(s, SkipWs(s, 1), Len(s)))
  ELSE <<Head(s)>> \o CollapseWhitespace(Tail(s))

\* the characters of /[#_~`{}[\]|<>^]/
MarkupChars ==
  {"#", "_", "~", Backtick, "{", "}", "[", "]", "|", "<", ">", "^"}

\* the map callback without its last replace and its trim
sanitizeQuestion_NoWhitespaceStep(question) ==
  ReplaceAll(
    ReplaceAll(
      ReplaceAll(
        ReplaceAll(question, {"*"}, <<>>),
        {"/"}, <<" ","o","r"," ">>),
      {"\\"}, <<>>),
    MarkupChars, <<>>)

\* the body of sanitizeQuestions' map callback
sanitizeQuestion(question) ==
  Trim(CollapseWhitespace(
    ReplaceAll(
      ReplaceAll(
        ReplaceAll(
          ReplaceAll(question, {"*"}, <<>>),
          {"/"}, <<" ","o","r"," ">>),
        {"\\"}, <<>>),
      MarkupChars, <<>>)))

\* sanitizeQuestions on an array of strings
sanitizeQuestions(questions) ==
  [k \in 1..Len(questions) |-> sanitizeQuestion(questions[k])]

\* questionsText.match(/\[(.*)\]/s): matches[1], None when there is no match
BracketMatch(s) ==
  IF \E a, b \in 1..Len(s) : a < b /\ s[a] = "[" /\ s[b] = "]"
  THEN LET a == CHOOSE a \in 1..Len(s) :
                  s[a] = "[" /\ \A k \in 1..(a - 1) : s[k] # "["
           b == CHOOSE b \in 1..Len(s) :
                  s[b] = "]" /\ \A k \in (b + 1)..Len(s) : s[k] # "]"
       IN Some(SubSeq(s, a + 1, b - 1))
  ELSE None

\* String.prototype.split(/\r?\n/)
RECURSIVE SplitLines(_)
SplitLines(s) ==
  IF \E i \in 1..Len(s) : s[i] = "\n"
  THEN LET i == CHOOSE i \in 1..Len(s) :
                  s[i] = "\n" /\ \A k \in 1..(i - 1) : s[k] # "\n"
           e == IF i > 1 /\ s[i - 1] = "\r" THEN i - 2 ELSE i - 1
       IN <<SubSeq(s, 1, e)>> \o SplitLines(SubSeq(s, i + 1, Len(s)))
  ELSE <<s>>

\* the lines kept by parseQuestions' filter, trimmed
RECURSIVE QuotedLines(_)
QuotedLines(lines) ==
  IF lines = <<>> THEN <<>>
  ELSE LET line == Head(lines)
       IN (IF /\ Trim(line) # <<>>
              /\ Trim(line)[1] = "\""
              /\ Includes(line, <<"\"">>)
           THEN <<Trim(line)>> ELSE <<>>)
          \o QuotedLines(Tail(lines))

\* sanitizeQuestions on a parsed array: it throws a TypeError at the first
\* element that is no string
SanitizeParsed(v) ==
  IF AllStrings(v)
  THEN [threw |-> FALSE, questions |-> sanitizeQuestions(Strings(v))]
  ELSE [threw |-> TRUE]

\* the inner try of parseQuestions
ParseQuestionsRecovery(questionsText) ==
  LET matches == BracketMatch(questionsText)
      lines == QuotedLines(SplitLines(questionsText))
  IN IF Truthy(matches)
     THEN LET cleaned == JSONParse(<<"[">> \o The(matches) \o <<"]">>)
          IN IF cleaned.ok THEN SanitizeParsed(cleaned.v) ELSE [threw |-> TRUE]
     ELSE IF Len(lines) > 0
     THEN [threw |-> FALSE, questions |-> sanitizeQuestions(lines)]
     ELSE [threw |-> FALSE, questions |-> sanitizeQuestions(<<Trim(questionsText)>>)]

\* parseQuestions without the catch of its inner try
parseQuestions_NoLastResort(questionsText) ==
  LET parsedQuestions == JSONParse(questionsText)
      direct == IF parsedQuestions.ok /\ IsArray(parsedQuestions.v)
                THEN SanitizeParsed(parsedQuestions.v)
                ELSE [threw |-> TRUE]
  IN IF ~direct.threw THEN direct
     ELSE ParseQuestionsRecovery(questionsText)

\* parseQuestions: threw says whether an exception leaves the function
parseQuestions(questionsText) ==
  LET parsedQuestions == JSONParse(questionsText)
      direct == IF parsedQuestions.ok /\ IsArray(parsedQuestions.v)
                THEN SanitizeParsed(parsedQuestions.v)
                ELSE [threw |-> TRUE]
      recovery == ParseQuestionsRecovery(questionsText)
  IN IF ~direct.threw THEN direct
     ELSE IF ~recovery.threw THEN recovery
     ELSE [threw |-> FALSE,
           questions |-> sanitizeQuestions(<<Trim(questionsText)>>)]

\* String.prototype.split(",")
RECURSIVE SplitCommas(_)
SplitCommas(s) ==
  IF \E i \in 1..Len(s) : s[i] = ","
  THEN LET i == CHOOSE i \in 1..Len(s) :
                  s[i] = "," /\ \A k \in 1..(i - 1) : s[k] # ","
       IN <<SubSeq(s, 1, i - 1)>> \o SplitCommas(SubSeq(s, i + 1, Len(s)))
  ELSE <<s>>

\* formatTechstack: techstack is a JSON value or None (undefined)
formatTechstack(techstack) ==
  IF IsSome(techstack) /\ IsArray(The(techstack)) THEN The(techstack).v
  ELSE IF IsSome(techstack) /\ The(techstack).t = "string"
  THEN LET parts == SplitCommas(The(techstack).v)
       IN [k \in 1..Len(parts) |-> JStr(Trim(parts[k]))]
  ELSE <<JStr(<<"J","a","v","a","S","c","r","i","p","t">>),
         JStr(<<"R","e","a","c","t">>)>>

\* ------------------------------------------------- messages of the provider
\* VapiMessage: {type, transcriptType?, role?, transcript?}
VapiMessages ==
  { [type |-> "transcript", transcriptType |-> "final", role |-> "user",
     transcript |-> Some(<<"a"," ","b","a","c","k","e","n","d"," ","r","o","l","e">>)],
    [type |-> "transcript", transcriptType |-> "final", role |-> "assistant",
     transcript |-> Some(<<"S","e","n","i","o","r"," ","l","e","v","e","l",","," ","7"," ","q","u","e","s","t","i","o","n","s">>)],
    [type |-> "transcript", transcriptType |-> "partial", role |-> "user",
     transcript |-> Some(<<"a"," ","b","a","c","k">>)],
    [type |-> "function-call", transcriptType |-> "", role |-> "",
     transcript |-> None] }

\* one final fragment and one partial one
SessionMessages ==
  { m \in VapiMessages : m.role = "user" }

\* the fragment of the specification's worked example
SpecFragment ==
  <<"I","'","d"," ","l","i","k","e"," ","a"," ","b","a","c","k","e","n","d"," ","r","o","l","e"," ","a","t"," ","s","e","n","i","o","r"," ","l","e","v","e","l",","," ","t","e","c","h","n","i","c","a","l"," ","i","n","t","e","r","v","i","e","w",","," ","7"," ","q","u","e","s","t","i","o","n","s",","," ","u","s","i","n","g"," ","r","e","a","c","t"," ","a","n","d"," ","n","o","d","e">>

\* two final fragments of the user (the worked example is one), a partial
\* one, and a message that is no transcript
TranscriptMessages ==
  { m \in VapiMessages : m.role # "assistant" } \cup
    { [type |-> "transcript", transcriptType |-> "final", role |-> "user",
       transcript |-> Some(SpecFragment)] }

\* fragments for the Field Extractor: two roles, a role in capitals, two
\* levels, two types, two tech stacks, and one that matches nothing
Fragment ==
  [backendRole |->
     <<"a"," ","b","a","c","k","e","n","d"," ","r","o","l","e">>,
   frontendRole |->
     <<"a"," ","f","r","o","n","t","e","n","d"," ","r","o","l","e">>,
   upperBackendRole |->
     <<"A"," ","B","A","C","K","E","N","D"," ","R","O","L","E">>,
   juniorLevel |->
     <<"j","u","n","i","o","r"," ","l","e","v","e","l">>,
   seniorLevel |->
     <<"s","e","n","i","o","r"," ","l","e","v","e","l">>,
   technical |->
     <<"t","e","c","h","n","i","c","a","l">>,
   behavioral |->
     <<"b","e","h","a","v","i","o","r","a","l">>,
   react |->
     <<"t","e","c","h"," ","s","t","a","c","k",":"," ","r","e","a","c","t">>,
   vueAndNode |->
     <<"t","e","c","h","n","o","l","o","g","i","e","s",":"," ","V","u","e",","," ","n","o","d","e">>,
   hello |->
     <<"h","e","l","l","o">>]

\* the final transcript messages of the user that carry the fragments
ExtractorMessages ==
  { [type |-> "transcript", transcriptType |-> "final", role |-> "user",
     transcript |-> Some(Fragment[k])] : k \in DOMAIN Fragment }

\* the (interview, user) pairs feedback is written for
FeedbackPairs ==
  { [interviewId |-> "i1", userId |-> "u1"],
    [interviewId |-> "i1", userId |-> "u2"] }

\* --------------------------------------------------------------- the state
VARIABLES
  type,           \* prop: "generate" | "practice"
  userId,         \* prop: optional
  interviewId,    \* prop: optional
  callStatus,     \* useState<CallStatus>
  messages,       \* useState<SavedMessage[]>: the transcript
  isSpeaking,     \* useState(false)
  error,          \* useState<string | null>
  isSubmitting,   \* useState(false)
  interviewData,  \* useRef<InterviewData>
  effectDeps,     \* dependencies seen by the last run of the terminal-state effect
  inflight,       \* post-call submissions awaiting their collaborator
  startPending,   \* vapi.start promises not yet settled
  timers,         \* setTimeout callbacks not yet run
  submitted,      \* collaborator calls issued so far
  scheduled,      \* navigations scheduled so far, by destination
  finishes,       \* times callStatus has become FINISHED so far
  location,       \* "session" while the view is mounted, else where it went
  lastOp,         \* the task or the request that produced this state
  interviews,     \* Firestore collection "interviews": the documents, in order of creation
  feedback,       \* Firestore collection "feedback": the documents, in order of creation
  now,            \* the clock of the server, read by new Date()
  lastWrite,      \* per (interview, user): the last feedback written, with its id
  users,          \* Firestore collection "users": per uid, the document if there is one
  signUps         \* the calls of signUp so far, each with the await it stands at

vars ==
  <<type, userId, interviewId, callStatus, messages, isSpeaking, error,
    isSubmitting, interviewData, effectDeps, inflight, startPending,
    timers, submitted, scheduled, finishes, location, lastOp,
    interviews, feedback, now, lastWrite, users, signUps>>

\* the state of the server
server == <<interviews, feedback, now, lastWrite, users, signUps>>

\* the state of the session view
view ==
  <<type, userId, interviewId, callStatus, messages, isSpeaking, error,
    isSubmitting, interviewData, effectDeps, inflight, startPending,
    timers, submitted, scheduled, finishes, location>>

props == <<type, userId, interviewId>>

\* the ids of the documents of the collection "users"
Uids == {"u1", "u2"}

\* the dependency list of the terminal-state effect.  type, interviewId and
\* router never change; handleGenerateFeedback changes with messages, which
\* only grows; handleInterviewGeneration changes with isSubmitting.
Deps == <<callStatus, Len(messages), isSubmitting>>

EffectPending == effectDeps # Deps

\* a task of the mounted view can start: React has run the effect of the
\* last render
Idle == location = "session" /\ ~EffectPending

\* the history counters count 0, 1, many
Count(n) == IF n < 2 THEN n + 1 ELSE n

\* the count of terminal states once setCallStatus(status) is rendered
Finishes(status) ==
  IF status = "FINISHED" /\ callStatus # "FINISHED"
  THEN Count(finishes) ELSE finishes

Init ==
  /\ type \in {"generate", "practice"}
  /\ userId \in {None, Some("u1")}
  /\ interviewId \in IF type = "generate" THEN {None} ELSE {None, Some("i1")}
  /\ callStatus = "INACTIVE"
  /\ messages = <<>>
  /\ isSpeaking = FALSE
  /\ error = None
  /\ isSubmitting = FALSE
  /\ interviewData = DefaultInterviewData
  /\ effectDeps = <<"INACTIVE", 0, FALSE>>
  /\ inflight = <<>>
  /\ startPending = 0
  /\ timers = {}
  /\ submitted = 0
  /\ scheduled = [home |-> 0, feedback |-> 0]
  /\ finishes = 0
  /\ location = "session"
  /\ lastOp = [name |-> "mount"]
  /\ interviews = <<>>
  /\ feedback = <<>>
  /\ now = 0
  /\ lastWrite = [p \in FeedbackPairs |-> None]
  /\ users = [uid \in Uids |-> None]
  /\ signUps = <<>>

\* ------------------------------------------------- hooks/useVapiCalls.ts
\* IsMeetingEnded without the two includes() tests
IsMeetingEnded_TopLevelOnly(e) ==
  \/ e.errorMsg = Some(MeetingHasEnded)
  \/ e.nested = Some(MeetingHasEnded)

\* the condition of handleVapiError's first if
IsMeetingEnded(e) ==
  \/ e.errorMsg = Some(MeetingHasEnded)
  \/ e.nested = Some(MeetingHasEnded)
  \/ (e.kind = "string" /\ Includes(The(e.str), MeetingHasEnded))
  \/ (Truthy(e.message) /\ Includes(The(e.message), MeetingHasEnded))

\* the argument of setError in handleVapiError
ErrorText(e) ==
  IF e.kind = "string" THEN The(e.str)
  ELSE IF Truthy(e.errorMsg) THEN The(e.errorMsg)
  ELSE IF Truthy(e.message) THEN The(e.message)
  ELSE DefaultServiceError

\* handleVapiError with the wrong status in its first branch
handleVapiError_EndIsInactive(e, curError) ==
  IF e.errorMsg = Some(MeetingHasEnded)
     \/ e.nested = Some(MeetingHasEnded)
     \/ (e.kind = "string" /\ Includes(The(e.str), MeetingHasEnded))
     \/ (Truthy(e.message) /\ Includes(The(e.message), MeetingHasEnded))
  THEN [callStatus |-> "INACTIVE", error |-> curError]
  ELSE [callStatus |-> "INACTIVE",
        error |-> Some(IF e.kind = "string" THEN The(e.str)
                       ELSE IF Truthy(e.errorMsg) THEN The(e.errorMsg)
                       ELSE IF Truthy(e.message) THEN The(e.message)
                       ELSE DefaultServiceError)]

\* handleVapiError: the callStatus and error it leaves, from the error held
handleVapiError(e, curError) ==
  IF IsMeetingEnded(e)
  THEN [callStatus |-> "FINISHED", error |-> curError]
  ELSE [callStatus |-> "INACTIVE", error |-> Some(ErrorText(e))]

onCallStart ==
  /\ Idle
  /\ callStatus' = "ACTIVE"
  /\ lastOp' = [name |-> "call-start"]
  /\ UNCHANGED <<props, server, finishes, messages, isSpeaking, error, isSubmitting,
                 interviewData, effectDeps, inflight, startPending,
                 timers, submitted, scheduled, location>>

\* onCallEnd that also clears the speaking indicator
onCallEnd_ResetsSpeaking ==
  /\ Idle
  /\ callStatus' = "FINISHED"
  /\ isSpeaking' = FALSE
  /\ finishes' = Finishes(callStatus')
  /\ lastOp' = [name |-> "call-end"]
  /\ UNCHANGED <<props, server, messages, error, isSubmitting, interviewData,
                 effectDeps, inflight, startPending, timers, submitted,
                 scheduled, location>>

onCallEnd ==
  /\ Idle
  /\ callStatus' = "FINISHED"
  /\ finishes' = Finishes(callStatus')
  /\ lastOp' = [name |-> "call-end"]
  /\ UNCHANGED <<props, server, messages, isSpeaking, error, isSubmitting,
                 interviewData, effectDeps, inflight, startPending,
                 timers, submitted, scheduled, location>>

\* IsFinalTranscript without the test of transcriptType
IsFinalTranscript_AnyTranscript(m) == m.type = "transcript"

\* the condition of onMessage's if
IsFinalTranscript(m) == m.type = "transcript" /\ m.transcriptType = "final"

\* onMessage that forwards the fragment whatever the purpose is
onMessage_AlwaysExtract(m) ==
  /\ Idle
  /\ IF IsFinalTranscript(m)
     THEN /\ Len(messages) < MaxMessages
          /\ messages' = Append(messages, [role |-> m.role, content |-> The(m.transcript)])
          /\ interviewData' = extractDataFromMessage(m.transcript, interviewData)
     ELSE UNCHANGED <<messages, interviewData>>
  /\ lastOp' = [name |-> "message", message |-> m]
  /\ UNCHANGED <<props, server, finishes, callStatus, isSpeaking, error, isSubmitting,
                 effectDeps, inflight, startPending, timers,
                 submitted, scheduled, location>>

\* onMessage that hands the extractor a fresh record for every fragment
onMessage_ForgetsEarlier(m) ==
  /\ Idle
  /\ IF IsFinalTranscript(m)
     THEN /\ Len(messages) < MaxMessages
          /\ messages' = Append(messages, [role |-> m.role, content |-> The(m.transcript)])
          /\ interviewData' =
               IF type = "generate"
               THEN extractDataFromMessage(m.transcript, DefaultInterviewData)
               ELSE interviewData
     ELSE UNCHANGED <<messages, interviewData>>
  /\ lastOp' = [name |-> "message", message |-> m]
  /\ UNCHANGED <<props, server, finishes, callStatus, isSpeaking, error, isSubmitting,
                 effectDeps, inflight, startPending, timers,
                 submitted, scheduled, location>>

\* onMessage that puts the new message first
onMessage_Prepend(m) ==
  /\ Idle
  /\ IF IsFinalTranscript(m)
     THEN /\ Len(messages) < MaxMessages
          /\ messages' = <<[role |-> m.role, content |-> The(m.transcript)]>> \o messages
          /\ interviewData' =
               IF type = "generate"
               THEN extractDataFromMessage(m.transcript, interviewData)
               ELSE interviewData
     ELSE UNCHANGED <<messages, interviewData>>
  /\ lastOp' = [name |-> "message", message |-> m]
  /\ UNCHANGED <<props, server, finishes, callStatus, isSpeaking, error, isSubmitting,
                 effectDeps, inflight, startPending, timers,
                 submitted, scheduled, location>>

onMessage(m) ==
  /\ Idle
  /\ IF IsFinalTranscript(m)
     THEN /\ Len(messages) < MaxMessages
          /\ messages' = Append(messages, [role |-> m.role, content |-> The(m.transcript)])
          /\ interviewData' =
               IF type = "generate"
               THEN extractDataFromMessage(m.transcript, interviewData)
               ELSE interviewData
     ELSE UNCHANGED <<messages, interviewData>>
  /\ lastOp' = [name |-> "message", message |-> m]
  /\ UNCHANGED <<props, server, finishes, callStatus, isSpeaking, error, isSubmitting,
                 effectDeps, inflight, startPending, timers,
                 submitted, scheduled, location>>

onSpeechStart ==
  /\ Idle
  /\ isSpeaking' = TRUE
  /\ lastOp' = [name |-> "speech-start"]
  /\ UNCHANGED <<props, server, finishes, callStatus, messages, error, isSubmitting,
                 interviewData, effectDeps, inflight, startPending,
                 timers, submitted, scheduled, location>>

\* onSpeechEnd that leaves the indicator as it is
onSpeechEnd_KeepsSpeaking ==
  /\ Idle
  /\ lastOp' = [name |-> "speech-end"]
  /\ UNCHANGED <<props, server, finishes, callStatus, messages, error, isSubmitting,
                 interviewData, effectDeps, inflight, startPending,
                 timers, submitted, scheduled, location, isSpeaking>>

onSpeechEnd ==
  /\ Idle
  /\ isSpeaking' = FALSE
  /\ lastOp' = [name |-> "speech-end"]
  /\ UNCHANGED <<props, server, finishes, callStatus, messages, error, isSubmitting,
                 interviewData, effectDeps, inflight, startPending,
                 timers, submitted, scheduled, location>>

onError(e) ==
  /\ Idle
  /\ callStatus' = handleVapiError(e, error).callStatus
  /\ error' = handleVapiError(e, error).error
  /\ finishes' = Finishes(callStatus')
  /\ lastOp' = [name |-> "error", error |-> e]
  /\ UNCHANGED <<props, server, messages, isSpeaking, isSubmitting, interviewData,
                 effectDeps, inflight, startPending, timers,
                 submitted, scheduled, location>>

\* the catch block without its setCallStatus(CallStatus.INACTIVE)
startWorkflowCatch_NoForce(e, curError) == handleVapiError(e, curError)

\* startGenerateWorkflow / startInterviewWorkflow, the catch block:
\* handleVapiError(error); setCallStatus(CallStatus.INACTIVE), one batch
startWorkflowCatch(e, curError) ==
  [callStatus |-> "INACTIVE", error |-> handleVapiError(e, curError).error]

\* stopCall: vapi.stop() in a try; the catch sets FINISHED
stopCall(status, stopThrows) ==
  IF stopThrows THEN "FINISHED" ELSE status

\* ------------------------------------------------- components/Agent.tsx
\* handleCall, up to the await of vapi.start.  The Call button is rendered
\* unless the call is ACTIVE and is disabled while isSubmitting.
handleCall ==
  /\ Idle
  /\ callStatus # "ACTIVE"
  /\ ~isSubmitting
  /\ startPending < MaxPending
  /\ error' = None
  /\ callStatus' = "CONNECTING"
  /\ startPending' = startPending + 1
  /\ lastOp' = [name |-> "handleCall", from |-> callStatus]
  /\ UNCHANGED <<props, server, finishes, messages, isSpeaking, isSubmitting, interviewData,
                 effectDeps, inflight, timers, submitted, scheduled, location>>

\* vapi.start resolves: the workflow function returns
startResolves ==
  /\ Idle
  /\ startPending > 0
  /\ startPending' = startPending - 1
  /\ lastOp' = [name |-> "start-resolved"]
  /\ UNCHANGED <<props, server, finishes, callStatus, messages, isSpeaking, error, isSubmitting,
                 interviewData, effectDeps, inflight, timers,
                 submitted, scheduled, location>>

\* vapi.start rejects with e: the catch block of the workflow function
startRejects(e) ==
  /\ Idle
  /\ startPending > 0
  /\ startPending' = startPending - 1
  /\ callStatus' = startWorkflowCatch(e, error).callStatus
  /\ error' = startWorkflowCatch(e, error).error
  /\ lastOp' = [name |-> "start-rejected", error |-> e]
  /\ UNCHANGED <<props, server, finishes, messages, isSpeaking, isSubmitting, interviewData,
                 effectDeps, inflight, timers, submitted, scheduled,
                 location>>

\* handleDisconnect that leaves the status to stopCall
disconnectStatus_StopOnly(status, stopThrows) == stopCall(status, stopThrows)

\* handleDisconnect: setCallStatus(FINISHED); stopCall()
disconnectStatus(status, stopThrows) == stopCall("FINISHED", stopThrows)

\* the End button is rendered only while the call is ACTIVE
handleDisconnect(stopThrows) ==
  /\ Idle
  /\ callStatus = "ACTIVE"
  /\ callStatus' = disconnectStatus(callStatus, stopThrows)
  /\ finishes' = Finishes(callStatus')
  /\ lastOp' = [name |-> "handleDisconnect", stopThrows |-> stopThrows]
  /\ UNCHANGED <<props, server, messages, isSpeaking, error, isSubmitting,
                 interviewData, effectDeps, inflight, startPending,
                 timers, submitted, scheduled, location>>

\* handleInterviewGeneration up to its await: whether it issues
\* handleApiSubmission(interviewData, userId), and the error it leaves
handleInterviewGenerationStart ==
  IF ~IsSome(userId) \/ isSubmitting
  THEN [started |-> FALSE, error |-> error]
  ELSE [started |-> TRUE, error |-> error,
        sub |-> [kind |-> "generate", data |-> interviewData]]

\* handleGenerateFeedback that submits the last message only
handleGenerateFeedbackStart_LastMessageOnly ==
  IF ~IsSome(interviewId) \/ ~IsSome(userId)
  THEN [started |-> FALSE, error |-> Some(MissingInterviewData)]
  ELSE [started |-> TRUE, error |-> error,
        sub |-> [kind |-> "practice",
                 transcript |-> IF messages = <<>> THEN <<>>
                                ELSE <<messages[Len(messages)]>>]]

\* handleGenerateFeedback up to its await: whether it issues
\* createFeedback({interviewId, userId, transcript: messages, feedbackId})
handleGenerateFeedbackStart ==
  IF ~IsSome(interviewId) \/ ~IsSome(userId)
  THEN [started |-> FALSE, error |-> Some(MissingInterviewData)]
  ELSE [started |-> TRUE, error |-> error,
        sub |-> [kind |-> "practice", transcript |-> messages]]

\* the message thrown by a collaborator that throws
ThrownMessage == Boom

\* the rest of handleInterviewGeneration / handleGenerateFeedback, after the
\* collaborator has settled with outcome: the result and the error it leaves
SubmissionOutcomes(kind) ==
  IF kind = "generate" THEN {"ok", "throw"} ELSE {"ok", "fail", "throw"}

handleSubmissionSettled(kind, outcome, curError) ==
  IF outcome = "ok" THEN [success |-> TRUE, error |-> curError]
  ELSE IF kind = "generate"
  THEN [success |-> FALSE, error |-> Some(FailedToCreateInterview)]
  ELSE IF outcome = "fail"
  THEN [success |-> FALSE, error |-> Some(FailedToCreateFeedback)]
  ELSE [success |-> FALSE,
        error |-> Some(ErrorCreatingFeedbackPrefix \o ThrownMessage)]

\* processFinishedCall without its if (!success) setTimeout
NavigationsAfter_NoFallback(purpose, success) ==
  IF success
  THEN IF purpose = "generate"
       THEN {[dest |-> "home", delay |-> 2000]}
       ELSE {[dest |-> "feedback", delay |-> 2000]}
  ELSE {}

\* processFinishedCall after its await: the setTimeout calls it makes
NavigationsAfter(purpose, success) ==
  IF success
  THEN IF purpose = "generate"
       THEN {[dest |-> "home", delay |-> 2000]}
       ELSE {[dest |-> "feedback", delay |-> 2000]}
  ELSE {[dest |-> "home", delay |-> 3000]}

Scheduled(ts) ==
  [home |-> IF \E t \in ts : t.dest = "home"
            THEN Count(scheduled.home) ELSE scheduled.home,
   feedback |-> IF \E t \in ts : t.dest = "feedback"
                THEN Count(scheduled.feedback) ELSE scheduled.feedback]

\* the condition of the effect's if without the in-progress flag
ShouldProcessFinishedCall_NoFlag == callStatus = "FINISHED"

\* the condition of the effect's if
ShouldProcessFinishedCall == callStatus = "FINISHED" /\ ~isSubmitting

\* one run of the effect whose dependencies changed in the last render
RunEffect ==
  /\ location = "session"
  /\ EffectPending
  /\ effectDeps' = Deps
  /\ IF ShouldProcessFinishedCall
     THEN LET r == IF type = "generate" THEN handleInterviewGenerationStart
                   ELSE handleGenerateFeedbackStart
          IN /\ error' = r.error
             /\ IF r.started
                THEN /\ isSubmitting' = TRUE
                     /\ inflight' = Append(inflight, r.sub)
                     /\ submitted' = Count(submitted)
                     /\ UNCHANGED <<timers, scheduled>>
                     /\ lastOp' = [name |-> "effect", result |-> "submitted"]
                ELSE /\ timers' = timers \cup NavigationsAfter(type, FALSE)
                     /\ scheduled' = Scheduled(NavigationsAfter(type, FALSE))
                     /\ UNCHANGED <<isSubmitting, inflight, submitted>>
                     /\ lastOp' = [name |-> "effect", result |-> "failed"]
     ELSE /\ UNCHANGED <<error, isSubmitting, inflight, submitted, timers, scheduled>>
          /\ lastOp' = [name |-> "effect", result |-> "skipped"]
  /\ UNCHANGED <<props, server, finishes, callStatus, messages, isSpeaking, interviewData,
                 startPending, location>>

\* the collaborator of the oldest submission settles: the finally block
\* clears isSubmitting and processFinishedCall schedules the navigation
submissionSettles(outcome) ==
  /\ location = "session"
  /\ inflight # <<>>
  /\ outcome \in SubmissionOutcomes(Head(inflight).kind)
  /\ LET r == handleSubmissionSettled(Head(inflight).kind, outcome, error)
     IN /\ error' = r.error
        /\ timers' = timers \cup NavigationsAfter(type, r.success)
        /\ scheduled' = Scheduled(NavigationsAfter(type, r.success))
        /\ lastOp' = [name |-> "settled", success |-> r.success,
                      sub |-> Head(inflight)]
  /\ isSubmitting' = FALSE
  /\ inflight' = Tail(inflight)
  /\ UNCHANGED <<props, server, finishes, callStatus, messages, isSpeaking, interviewData,
                 effectDeps, startPending, submitted, location>>

\* a setTimeout callback runs: router.push leaves the session view
timerFires(t) ==
  /\ Idle
  /\ t \in timers
  /\ location' = t.dest
  /\ timers' = timers \ {t}
  /\ lastOp' = [name |-> "timer", timer |-> t]
  /\ UNCHANGED <<props, server, finishes, callStatus, messages, isSpeaking, error, isSubmitting,
                 interviewData, effectDeps, inflight, startPending,
                 submitted, scheduled>>

Next ==
  \/ onCallStart
  \/ onCallEnd
  \/ \E m \in SessionMessages : onMessage(m)
  \/ onSpeechStart
  \/ onSpeechEnd
  \/ \E e \in LifecycleErrors : onError(e)
  \/ handleCall
  \/ startResolves
  \/ \E e \in LifecycleErrors : startRejects(e)
  \/ \E stopThrows \in BOOLEAN : handleDisconnect(stopThrows)
  \/ RunEffect
  \/ \E outcome \in {"ok", "fail", "throw"} : submissionSettles(outcome)
  \/ \E t \in timers : timerFires(t)

Spec == Init /\ [][Next]_vars

\* every effect run, every collaborator call and every timer comes to its end
FairSpec ==
  /\ Spec
  /\ WF_vars(RunEffect)
  /\ WF_vars(\E outcome \in {"ok", "fail", "throw"} : submissionSettles(outcome))
  /\ SF_vars(\E t \in timers : timerFires(t))

\* the session view with every shape of error value, without transcript
\* and speech events
ErrorNext ==
  \/ onCallStart
  \/ onCallEnd
  \/ \E e \in VapiErrors : onError(e)
  \/ handleCall
  \/ startResolves
  \/ \E e \in VapiErrors : startRejects(e)
  \/ \E stopThrows \in BOOLEAN : handleDisconnect(stopThrows)
  \/ RunEffect
  \/ \E outcome \in {"ok", "fail", "throw"} : submissionSettles(outcome)
  \/ \E t \in timers : timerFires(t)

ErrorSpec == Init /\ [][ErrorNext]_vars

\* the session view of a signed-in user receiving every kind of message,
\* among the other events of the provider, up to the end of the call and
\* the navigation that follows it
TranscriptInit ==
  /\ Init
  /\ IsSome(userId)
  /\ type = "practice" => IsSome(interviewId)

TranscriptNext ==
  \/ onCallStart
  \/ onCallEnd
  \/ \E m \in TranscriptMessages : onMessage(m)
  \/ onSpeechStart
  \/ onSpeechEnd
  \/ \E e \in LifecycleErrors : onError(e)
  \/ \E stopThrows \in BOOLEAN : handleDisconnect(stopThrows)
  \/ RunEffect
  \/ \E outcome \in {"ok", "fail", "throw"} : submissionSettles(outcome)
  \/ \E t \in timers : timerFires(t)

TranscriptSpec == TranscriptInit /\ [][TranscriptNext]_vars

\* the generate view fed with fragments only
ExtractorInit == Init /\ type = "generate" /\ IsSome(userId)

ExtractorNext ==
  \/ \E m \in ExtractorMessages : onMessage(m)
  \/ RunEffect

ExtractorSpec == ExtractorInit /\ [][ExtractorNext]_vars

\* ---------------------------------- POST of app/api/vapi/generate/route.ts
\* truthiness of an optional JSON value
JTruthy(o) ==
  /\ IsSome(o)
  /\ LET v == The(o)
     IN CASE v.t = "null" -> FALSE
          [] v.t = "boolean" -> v.v
          [] v.t = "number" -> v.v # 0
          [] v.t = "string" -> v.v # <<>>
          [] OTHER -> TRUE

\* value || fallback
OrElse(o, fallback) == IF JTruthy(o) THEN The(o) ELSE fallback

\* the properties POST reads from the body
BodyKey ==
  [userid |->
     <<"u","s","e","r","i","d">>,
   role |->
     <<"r","o","l","e">>,
   type |->
     <<"t","y","p","e">>,
   level |->
     <<"l","e","v","e","l">>,
   techstack |->
     <<"t","e","c","h","s","t","a","c","k">>]

\* the defaults POST writes for a missing role, type and level
PostDefault ==
  [role |->
     <<"F","r","o","n","t","e","n","d"," ","D","e","v","e","l","o","p","e","r">>,
   type |->
     <<"m","i","x","e","d">>,
   level |->
     <<"e","n","t","r","y">>]

\* the bodies a request can carry: no JSON, null, objects without userid
\* or with an empty one, and objects with userid
PostBody ==
  [noJson |->
     <<"o","o","p","s">>,
   null |->
     <<"n","u","l","l">>,
   empty |->
     <<"{","}">>,
   blankUser |->
     <<"{","\"","u","s","e","r","i","d","\"",":","\"","\"","}">>,
   userOnly |->
     <<"{","\"","u","s","e","r","i","d","\"",":","\"","u","1","\"","}">>,
   full |->
     <<"{","\"","u","s","e","r","i","d","\"",":","\"","u","1","\"",",","\"","r","o","l","e","\"",":","\"","D","e","v","\"",",","\"","t","e","c","h","s","t","a","c","k","\"",":","\"","r","e","a","c","t",","," ","n","o","d","e","\"","}">>]

PostBodies == {PostBody[k] : k \in DOMAIN PostBody}

\* the texts generateText can return
QuestionText ==
  [array |->
     <<"[","\"","Q","1","\"",",","\"","Q","2","\"","]">>,
   embedded |->
     <<"H","e","r","e"," ","a","r","e"," ","s","o","m","e",":"," ","[","\"","Q","1","\"",",","\"","Q","2","\"","]">>,
   garbage |->
     <<"g","a","r","b","a","g","e">>,
   emptyArray |->
     <<"[","]">>,
   empty |->
     <<>>,
   slash |->
     <<"[","\"","W","h","a","t"," ","i","s"," ","C","I","/","C","D","?","\"","]">>,
   twoBrackets |->
     <<"S","e","e"," ","[","1","]",":"," ","[","\"","Q","1","\"","]">>,
   numbers |->
     <<"[","1",",","2","]">>,
   lines |->
     <<"\"","Q","1","\"","\n","\"","Q","2","\"">>,
   bracketsAndLines |->
     <<"[","x","]","\n","\"","Q","1","\"">>]

QuestionTexts == {QuestionText[k] : k \in DOMAIN QuestionText}

\* POST that answers every request it rejects with 500
PostRejection_AlwaysInternal(bodyText) ==
  LET body == JSONParse(bodyText)
  IN IF ~body.ok \/ body.v.t = "null" THEN 500
     ELSE IF ~JTruthy(Prop(body.v, BodyKey.userid)) THEN 500
     ELSE 0

\* the status POST returns before it calls generateText, 0 when it goes on:
\* request.json() or the destructuring of its result throws (the outer
\* catch), or userid is falsy
PostRejection(bodyText) ==
  LET body == JSONParse(bodyText)
  IN IF ~body.ok \/ body.v.t = "null" THEN 500
     ELSE IF ~JTruthy(Prop(body.v, BodyKey.userid)) THEN 400
     ELSE 0

\* the response of the catch blocks of POST
PostInternal ==
  [status |-> 500, success |-> FALSE, interviewId |-> None,
   llmCalled |-> FALSE, parsed |-> None, doc |-> None]

\* POST after generateText has returned: parsedQuestions is what
\* parseQuestions made of the text, body the request's JSON
PostGenerated(body, parsedQuestions, addThrows, docId) ==
  IF parsedQuestions.threw \/ addThrows
  THEN [PostInternal EXCEPT !.llmCalled = TRUE,
                            !.parsed = Some(parsedQuestions)]
  ELSE [status |-> 200, success |-> TRUE,
        interviewId |-> Some(docId), llmCalled |-> TRUE,
        parsed |-> Some(parsedQuestions),
        doc |-> Some(
          [role |-> OrElse(Prop(body, BodyKey.role), JStr(PostDefault.role)),
           type |-> OrElse(Prop(body, BodyKey.type), JStr(PostDefault.type)),
           level |-> OrElse(Prop(body, BodyKey.level), JStr(PostDefault.level)),
           techstack |-> formatTechstack(Prop(body, BodyKey.techstack)),
           userId |-> The(Prop(body, BodyKey.userid)),
           questions |-> parsedQuestions.questions,
           finalized |-> TRUE])]

\* POST after the request was read: rejection is PostRejection's status
PostAccepted(rejection, bodyText, llm, addThrows, docId) ==
  IF rejection # 0 THEN [PostInternal EXCEPT !.status = rejection]
  ELSE IF ~IsSome(llm) THEN [PostInternal EXCEPT !.llmCalled = TRUE]
  ELSE PostGenerated(JSONParse(bodyText).v, parseQuestions(The(llm)),
                     addThrows, docId)

\* POST: the response, whether generateText was called, and the document
\* added to "interviews" (coverImage and createdAt left out).  llm is the
\* text generateText returns, None when it throws; docId the id Firestore
\* gives the document.
PostHandler(bodyText, llm, addThrows, docId) ==
  PostAccepted(PostRejection(bodyText), bodyText, llm, addThrows, docId)

\* a request arrives at POST /api/vapi/generate, with what generateText and
\* Firestore will answer to it
PostRequest(bodyText, llm, addThrows) ==
  /\ lastOp.name # "request"
  /\ lastOp' = [name |-> "request", route |-> "POST", body |-> bodyText,
                llm |-> llm, addThrows |-> addThrows]
  /\ UNCHANGED <<view, server>>

\* the response r of POST takes effect: its document is added
PostResponds(r) ==
  /\ IsSome(r.doc) => Len(interviews) < MaxInterviews
  /\ interviews' = IF IsSome(r.doc) THEN Append(interviews, The(r.doc))
                   ELSE interviews
  /\ lastOp' = [name |-> "POST", body |-> lastOp.body, llm |-> lastOp.llm,
                addThrows |-> lastOp.addThrows, status |-> r.status,
                success |-> r.success, interviewId |-> r.interviewId,
                llmCalled |-> r.llmCalled, parsed |-> r.parsed]

\* POST handles the request
POST ==
  /\ lastOp.name = "request"
  /\ lastOp.route = "POST"
  /\ PostResponds(PostHandler(lastOp.body, lastOp.llm, lastOp.addThrows,
                              Len(interviews) + 1))
  /\ UNCHANGED <<view, feedback, now, lastWrite, users, signUps>>

\* the server with no session view in play
ServerInit ==
  /\ Init
  /\ type = "generate"
  /\ IsSome(userId)

GenerateNext ==
  \/ \E bodyText \in PostBodies, addThrows \in BOOLEAN,
        llm \in {None} \cup {Some(t) : t \in QuestionTexts} :
       PostRequest(bodyText, llm, addThrows)
  \/ POST

GenerateSpec == ServerInit /\ [][GenerateNext]_vars

\* ---------------------- sanitizeQuestions of app/api/vapi/generate/route.ts
\* the characters questions are made of: a letter, white space, and
\* characters the sanitization removes or replaces
QuestionChars == {"a", " ", "\n", "/", "*", "\\", "_"}

QuestionStrings == UNION {[1..n -> QuestionChars] : n \in 0..MaxQuestionLen}

\* sanitizeQuestions is called with one question
SanitizeCall ==
  /\ lastOp.name = "mount"
  /\ \E question \in QuestionStrings :
       lastOp' = [name |-> "sanitize", questions |-> <<question>>]
  /\ UNCHANGED <<view, server>>

\* sanitizeQuestions is called with the list it returned
SanitizeAgain ==
  /\ lastOp.name = "sanitizeQuestions"
  /\ lastOp' = [name |-> "sanitize", questions |-> lastOp.result]
  /\ UNCHANGED <<view, server>>

\* sanitizeQuestions returns
SanitizeReturns ==
  /\ lastOp.name = "sanitize"
  /\ lastOp' = [name |-> "sanitizeQuestions", questions |-> lastOp.questions,
                result |-> sanitizeQuestions(lastOp.questions)]
  /\ UNCHANGED <<view, server>>

SanitizeNext ==
  \/ SanitizeCall
  \/ SanitizeAgain
  \/ SanitizeReturns

SanitizeSpec == ServerInit /\ [][SanitizeNext]_vars

\* ------------------------- createFeedback of lib/actions/general.action.ts
\* the properties of the feedback object and of its categories
FeedbackKey ==
  [totalScore |->
     <<"t","o","t","a","l","S","c","o","r","e">>,
   categoryScores |->
     <<"c","a","t","e","g","o","r","y","S","c","o","r","e","s">>,
   strengths |->
     <<"s","t","r","e","n","g","t","h","s">>,
   areasForImprovement |->
     <<"a","r","e","a","s","F","o","r","I","m","p","r","o","v","e","m","e","n","t">>,
   finalAssessment |->
     <<"f","i","n","a","l","A","s","s","e","s","s","m","e","n","t">>,
   name |->
     <<"n","a","m","e">>,
   score |->
     <<"s","c","o","r","e">>,
   comment |->
     <<"c","o","m","m","e","n","t">>]

CategoryNames ==
  <<<<"C","o","m","m","u","n","i","c","a","t","i","o","n"," ","S","k","i","l","l","s">>,
    <<"T","e","c","h","n","i","c","a","l"," ","K","n","o","w","l","e","d","g","e">>,
    <<"P","r","o","b","l","e","m"," ","S","o","l","v","i","n","g">>,
    <<"C","u","l","t","u","r","a","l"," ","F","i","t">>,
    <<"C","o","n","f","i","d","e","n","c","e"," ","a","n","d"," ","C","l","a","r","i","t","y">>>>

\* the texts createFeedback writes by default and in its fallback
FeedbackNote ==
  [limitedAssessment |->
     <<"L","i","m","i","t","e","d"," ","a","s","s","e","s","s","m","e","n","t"," ","d","u","e"," ","t","o"," ","b","r","i","e","f"," ","i","n","t","e","r","v","i","e","w">>,
   evaluationLimited |->
     <<"E","v","a","l","u","a","t","i","o","n"," ","l","i","m","i","t","e","d"," ","d","u","e"," ","t","o"," ","b","r","i","e","f"," ","i","n","t","e","r","v","i","e","w">>,
   needMoreConversation |->
     <<"N","e","e","d"," ","m","o","r","e"," ","c","o","n","v","e","r","s","a","t","i","o","n"," ","t","o"," ","p","r","o","v","i","d","e"," ","d","e","t","a","i","l","e","d"," ","a","r","e","a","s"," ","f","o","r"," ","i","m","p","r","o","v","e","m","e","n","t">>,
   assessmentLimited |->
     <<"A","s","s","e","s","s","m","e","n","t"," ","l","i","m","i","t","e","d"," ","d","u","e"," ","t","o"," ","b","r","i","e","f"," ","i","n","t","e","r","v","i","e","w"," ","c","o","n","t","e","n","t",".">>,
   unableToAssess |->
     <<"U","n","a","b","l","e"," ","t","o"," ","a","s","s","e","s","s"," ","f","r","o","m"," ","l","i","m","i","t","e","d"," ","c","o","n","v","e","r","s","a","t","i","o","n">>,
   needMoreSubstantial |->
     <<"N","e","e","d"," ","m","o","r","e"," ","s","u","b","s","t","a","n","t","i","a","l"," ","i","n","t","e","r","v","i","e","w"," ","t","o"," ","e","v","a","l","u","a","t","e">>,
   unableToProvide |->
     <<"U","n","a","b","l","e"," ","t","o"," ","p","r","o","v","i","d","e"," ","a"," ","c","o","m","p","l","e","t","e"," ","a","s","s","e","s","s","m","e","n","t"," ","d","u","e"," ","t","o"," ","l","i","m","i","t","e","d"," ","i","n","t","e","r","v","i","e","w"," ","d","a","t","a","."," ","C","o","n","s","i","d","e","r"," ","c","o","n","d","u","c","t","i","n","g"," ","a"," ","m","o","r","e"," ","e","x","t","e","n","s","i","v","e"," ","i","n","t","e","r","v","i","e","w",".">>]

\* one entry of the fallback's categoryScores
FallbackCategory(name) ==
  JObj(<<[key |-> FeedbackKey.name, value |-> JStr(name)],
         [key |-> FeedbackKey.score, value |-> JNum(50)],
         [key |-> FeedbackKey.comment, value |-> JStr(FeedbackNote.limitedAssessment)]>>)

\* the fallback feedback object of the catch block
FallbackFeedback ==
  [totalScore |-> JNum(50),
   categoryScores |->
     JArr([k \in 1..Len(CategoryNames) |-> FallbackCategory(CategoryNames[k])]),
   strengths |-> JArr(<<JStr(FeedbackNote.unableToAssess)>>),
   areasForImprovement |-> JArr(<<JStr(FeedbackNote.needMoreSubstantial)>>),
   finalAssessment |-> JStr(FeedbackNote.unableToProvide)]

\* the opening fence of a code block, and the bare fence
FenceJson == <<Backtick, Backtick, Backtick, "j", "s", "o", "n">>
Fence == <<Backtick, Backtick, Backtick>>

\* String.prototype.replace(/```json|```/g, "")
RECURSIVE RemoveFences(_)
RemoveFences(s) ==
  LET hits == {i \in 1..Len(s) : StartsAt(s, i, Fence)}
  IN IF hits = {} THEN s
     ELSE
     LET first == CHOOSE i \in hits : \A j \in hits : i <= j
         matched == IF StartsAt(s, first, FenceJson)
                    THEN Len(FenceJson) ELSE Len(Fence)
     IN SubSeq(s, 1, first - 1) \o
        RemoveFences(SubSeq(s, first + matched, Len(s)))

\* the validation of the try block: parsed is the result of JSON.parse,
\* thrown says whether the block ends in the catch
ValidateFeedback(parsed) ==
  IF ~parsed.ok \/ parsed.v.t = "null" THEN [thrown |-> TRUE]
  ELSE IF ~(/\ IsSome(Prop(parsed.v, FeedbackKey.totalScore))
            /\ The(Prop(parsed.v, FeedbackKey.totalScore)).t = "number")
  THEN [thrown |-> TRUE]
  ELSE IF ~(/\ IsSome(Prop(parsed.v, FeedbackKey.categoryScores))
            /\ IsArray(The(Prop(parsed.v, FeedbackKey.categoryScores))))
  THEN [thrown |-> TRUE]
  ELSE [thrown |-> FALSE,
        feedback |->
          [totalScore |-> The(Prop(parsed.v, FeedbackKey.totalScore)),
           categoryScores |-> The(Prop(parsed.v, FeedbackKey.categoryScores)),
           strengths |->
             IF /\ IsSome(Prop(parsed.v, FeedbackKey.strengths))
                /\ IsArray(The(Prop(parsed.v, FeedbackKey.strengths)))
             THEN The(Prop(parsed.v, FeedbackKey.strengths))
             ELSE JArr(<<JStr(FeedbackNote.evaluationLimited)>>),
           areasForImprovement |->
             IF /\ IsSome(Prop(parsed.v, FeedbackKey.areasForImprovement))
                /\ IsArray(The(Prop(parsed.v, FeedbackKey.areasForImprovement)))
             THEN The(Prop(parsed.v, FeedbackKey.areasForImprovement))
             ELSE JArr(<<JStr(FeedbackNote.needMoreConversation)>>),
           finalAssessment |->
             IF /\ IsSome(Prop(parsed.v, FeedbackKey.finalAssessment))
                /\ The(Prop(parsed.v, FeedbackKey.finalAssessment)).t = "string"
                /\ The(Prop(parsed.v, FeedbackKey.finalAssessment)).v # <<>>
             THEN The(Prop(parsed.v, FeedbackKey.finalAssessment))
             ELSE JStr(FeedbackNote.assessmentLimited)]]

\* the try block that parses and validates the text
ParseFeedback(text) ==
  ValidateFeedback(JSONParse(RemoveFences(Trim(text))))

\* the catch block with a fallback that has no category
OrFallback_EmptyCategories(tried) ==
  IF tried.thrown
  THEN [FallbackFeedback EXCEPT !.categoryScores = JArr(<<>>)]
  ELSE tried.feedback

\* the catch block: the fallback when the try block has thrown
OrFallback(tried) ==
  IF tried.thrown THEN FallbackFeedback ELSE tried.feedback

\* parsedFeedback after the try and its catch
ParsedOrFallback(text) ==
  OrFallback(ParseFeedback(text))

\* a feedback object with a total of 0 and one category, its score out of
\* range
FbOutOfRange ==
  <<"{","\"","t","o","t","a","l","S","c","o","r","e","\"",":","0",",","\"","c","a","t","e","g","o","r","y","S","c","o","r","e","s","\"",":","[","{","\"","n","a","m","e","\"",":","\"","P","r","o","b","l","e","m"," ","S","o","l","v","i","n","g","\"",",","\"","s","c","o","r","e","\"",":","1","5","0","}","]","}">>

\* the texts generateText can return to createFeedback, the last one
\* FbOutOfRange inside a fenced code block
FeedbackText ==
  [garbage |->
     <<"g","a","r","b","a","g","e">>,
   null |->
     <<"n","u","l","l">>,
   noCategories |->
     <<"{","\"","t","o","t","a","l","S","c","o","r","e","\"",":","8","0","}">>,
   stringScore |->
     <<"{","\"","t","o","t","a","l","S","c","o","r","e","\"",":","\"","8","0","\"",",","\"","c","a","t","e","g","o","r","y","S","c","o","r","e","s","\"",":","[","]","}">>,
   fenced |->
     FenceJson \o <<"\n">> \o FbOutOfRange \o <<"\n">> \o Fence]

FeedbackTexts == {FeedbackText[k] : k \in DOMAIN FeedbackText}

\* feedbackData: the document createFeedback writes
FeedbackData(params, parsedFeedback, createdAt) ==
  [interviewId |-> params.interviewId,
   userId |-> params.userId,
   totalScore |-> parsedFeedback.totalScore,
   categoryScores |-> parsedFeedback.categoryScores,
   strengths |-> parsedFeedback.strengths,
   areasForImprovement |-> parsedFeedback.areasForImprovement,
   finalAssessment |-> parsedFeedback.finalAssessment,
   createdAt |-> createdAt]

\* the result of createFeedback when it fails
FeedbackFailure(docs) ==
  [success |-> FALSE, feedbackId |-> None, docs |-> docs, llmCalled |-> TRUE]

\* the Firestore part of createFeedback.  Firestore ids are the positions
\* in docs, 0 an id of no document.
WriteFeedback(feedbackId, feedbackData, writeThrows, docs) ==
  IF IsSome(feedbackId)
  THEN \* feedbackRef.update: fails when there is no such document
       IF writeThrows \/ The(feedbackId) \notin 1..Len(docs)
       THEN FeedbackFailure(docs)
       ELSE [success |-> TRUE, feedbackId |-> feedbackId,
             docs |-> [docs EXCEPT ![The(feedbackId)] = feedbackData],
             llmCalled |-> TRUE]
  ELSE \* db.collection("feedback").doc() and feedbackRef.set
       IF writeThrows THEN FeedbackFailure(docs)
       ELSE [success |-> TRUE, feedbackId |-> Some(Len(docs) + 1),
             docs |-> Append(docs, feedbackData), llmCalled |-> TRUE]

\* createFeedback: its result and the collection afterwards.  params holds
\* interviewId, userId (strings, "" when missing), transcript and feedbackId
\* (optional); llm is the text of generateText, None when it throws.
CreateFeedbackHandler(params, llm, writeThrows, docs, createdAt) ==
  IF params.interviewId = "" \/ params.userId = "" \/ ~IsSome(params.transcript)
  THEN [FeedbackFailure(docs) EXCEPT !.llmCalled = FALSE]
  ELSE IF ~IsSome(llm) THEN FeedbackFailure(docs)
  ELSE WriteFeedback(params.feedbackId,
                     FeedbackData(params, ParsedOrFallback(The(llm)), createdAt),
                     writeThrows, docs)

\* the query of getFeedbackByInterviewId in ascending order
LatestFeedback_Oldest(docs, interview, user) ==
  { k \in 1..Len(docs) :
      /\ docs[k].interviewId = interview
      /\ docs[k].userId = user
      /\ \A h \in 1..Len(docs) :
           (docs[h].interviewId = interview /\ docs[h].userId = user) =>
             docs[h].createdAt >= docs[k].createdAt }

\* the query of getFeedbackByInterviewId: the ids it can return, those of
\* the pair's documents with the greatest createdAt
LatestFeedback(docs, interview, user) ==
  { k \in 1..Len(docs) :
      /\ docs[k].interviewId = interview
      /\ docs[k].userId = user
      /\ \A h \in 1..Len(docs) :
           (docs[h].interviewId = interview /\ docs[h].userId = user) =>
             docs[h].createdAt <= docs[k].createdAt }

\* the completeness check of the feedback view on the document it got
FeedbackIsComplete(doc) ==
  /\ JTruthy(Some(doc.totalScore))
  /\ JTruthy(Some(doc.categoryScores))
  /\ JTruthy(Some(doc.strengths))
  /\ JTruthy(Some(doc.areasForImprovement))

\* the calls of createFeedback: one without interviewId, and for each pair
\* one with no feedbackId, with the id of no document, or with the id of a
\* document written for the pair
FeedbackParams ==
  { [interviewId |-> "", userId |-> "u1", transcript |-> Some(<<>>),
     feedbackId |-> None] } \cup
  { [interviewId |-> p.interviewId, userId |-> p.userId,
     transcript |-> Some(<<>>), feedbackId |-> f] :
      <<p, f>> \in
        { q \in FeedbackPairs \X ({None} \cup {Some(k) : k \in 0..Len(feedback)}) :
            IsSome(q[2]) /\ The(q[2]) > 0 =>
              /\ feedback[The(q[2])].interviewId = q[1].interviewId
              /\ feedback[The(q[2])].userId = q[1].userId } }

\* a call of createFeedback arrives, with what generateText and Firestore
\* will answer to it; a failing write is tried after a text that cannot be
\* parsed and after one that can
FeedbackRequest(params, llm, writeThrows) ==
  /\ lastOp.name # "request"
  /\ params \in FeedbackParams
  /\ writeThrows => llm \in {Some(FeedbackText.garbage), Some(FeedbackText.fenced)}
  /\ lastOp' = [name |-> "request", route |-> "createFeedback",
                params |-> params, llm |-> llm, writeThrows |-> writeThrows]
  /\ UNCHANGED <<view, server>>

\* the result r of createFeedback takes effect: the collection changes and
\* the last write of the pair is noted
FeedbackResult(r, pair) ==
  /\ feedback' = r.docs
  /\ lastWrite' =
       IF r.success
       THEN [lastWrite EXCEPT ![pair] =
               Some([id |-> The(r.feedbackId),
                     data |-> r.docs[The(r.feedbackId)]])]
       ELSE lastWrite
  /\ lastOp' = [name |-> "createFeedback", params |-> lastOp.params,
                llm |-> lastOp.llm, writeThrows |-> lastOp.writeThrows,
                success |-> r.success, feedbackId |-> r.feedbackId]

\* createFeedback handles the call; new Date() reads the clock, which has
\* advanced since the call before
createFeedback ==
  /\ lastOp.name = "request"
  /\ lastOp.route = "createFeedback"
  /\ now < MaxClock
  /\ FeedbackResult(
       CreateFeedbackHandler(lastOp.params, lastOp.llm, lastOp.writeThrows,
                             feedback, now + 1),
       [interviewId |-> lastOp.params.interviewId,
        userId |-> lastOp.params.userId])
  /\ now' = now + 1
  /\ UNCHANGED <<view, interviews, users, signUps>>

\* getFeedbackByInterviewId: null for a missing parameter or an empty
\* result, else the first document of the query with its id
getFeedbackByInterviewId(interview, user) ==
  /\ lastOp.name # "request"
  /\ LET ids == IF interview = "" \/ user = "" THEN {}
                ELSE LatestFeedback(feedback, interview, user)
     IN \E result \in IF ids = {} THEN {None}
                       ELSE {Some([id |-> k, data |-> feedback[k]]) : k \in ids} :
          lastOp' = [name |-> "getFeedbackByInterviewId",
                     interviewId |-> interview, userId |-> user,
                     result |-> result]
  /\ UNCHANGED <<view, server>>

FeedbackNext ==
  \/ \E params \in FeedbackParams, writeThrows \in BOOLEAN,
        llm \in {None} \cup {Some(t) : t \in FeedbackTexts} :
       FeedbackRequest(params, llm, writeThrows)
  \/ createFeedback
  \/ \E p \in FeedbackPairs : getFeedbackByInterviewId(p.interviewId, p.userId)
  \/ getFeedbackByInterviewId("", "u1")

FeedbackSpec == ServerInit /\ [][FeedbackNext]_vars

\* ---------------------------------------- signUp of lib/actions/auth.action.ts
\* the messages signUp returns
SignUpMessage ==
  [missing |-> "Missing user information.",
   exists |-> "User record already exists. Please sign in.",
   created |-> "Account created successfully",
   failed |-> "Error setting up user account."]

\* the parameters of the calls: three with a field missing, two people
\* signing up under the same uid, and one under another uid
SignUpParams ==
  {[uid |-> "", name |-> "Ann", email |-> "ann@x"],
   [uid |-> "u1", name |-> "", email |-> "ann@x"],
   [uid |-> "u1", name |-> "Ann", email |-> ""],
   [uid |-> "u1", name |-> "Ann", email |-> "ann@x"],
   [uid |-> "u1", name |-> "Bob", email |-> "bob@x"],
   [uid |-> "u2", name |-> "Ann", email |-> "ann@x"]}

\* call i leaves its await at `at' for the next one, or returns
SignUpMoves(i, at, result) ==
  /\ signUps' = [signUps EXCEPT ![i] = [@ EXCEPT !.at = at, !.result = result]]
  /\ lastOp' = [name |-> "signUp", call |-> i, at |-> at, result |-> result]

\* signUp up to its first await: the validation, then userRef.get() is issued
signUp(params) ==
  /\ Len(signUps) < MaxSignUps
  /\ LET missing == params.uid = "" \/ params.name = "" \/ params.email = ""
         call == [params |-> params,
                  at |-> IF missing THEN "returned" ELSE "get",
                  result |-> IF missing
                             THEN Some([success |-> FALSE,
                                        message |-> SignUpMessage.missing])
                             ELSE None]
     IN /\ signUps' = Append(signUps, call)
        /\ lastOp' = [name |-> "signUp", call |-> Len(signUps) + 1,
                      at |-> call.at, result |-> call.result]
  /\ UNCHANGED <<view, interviews, feedback, now, lastWrite, users>>

\* userRef.get() of call i settles: signUp returns from the catch block or
\* for an existing document, else it issues userRef.set() and awaits it
signUpGetSettles(i, throws) ==
  /\ signUps[i].at = "get"
  /\ SignUpMoves(i,
       IF throws \/ IsSome(users[signUps[i].params.uid]) THEN "returned" ELSE "set",
       IF throws THEN Some([success |-> FALSE, message |-> SignUpMessage.failed])
       ELSE IF IsSome(users[signUps[i].params.uid])
            THEN Some([success |-> FALSE, message |-> SignUpMessage.exists])
            ELSE None)
  /\ UNCHANGED <<view, interviews, feedback, now, lastWrite, users>>

\* userRef.set() of call i settles: the document is written and signUp
\* returns success, or the write is rejected and signUp returns from the
\* catch block
signUpSetSettles(i, throws) ==
  /\ signUps[i].at = "set"
  /\ users' = IF throws THEN users
              ELSE [users EXCEPT ![signUps[i].params.uid] =
                      Some([name |-> signUps[i].params.name,
                            email |-> signUps[i].params.email,
                            createdAt |-> now])]
  /\ SignUpMoves(i, "returned",
       IF throws THEN Some([success |-> FALSE, message |-> SignUpMessage.failed])
       ELSE Some([success |-> TRUE, message |-> SignUpMessage.created]))
  /\ UNCHANGED <<view, interviews, feedback, now, lastWrite>>

SignUpNext ==
  \/ \E params \in SignUpParams : signUp(params)
  \/ \E i \in DOMAIN signUps, throws \in BOOLEAN : signUpGetSettles(i, throws)
  \/ \E i \in DOMAIN signUps, throws \in BOOLEAN : signUpSetSettles(i, throws)

SignUpSpec == ServerInit /\ [][SignUpNext]_vars

\* ------------------------------------------------------------ properties

\* C1: in one terminal state the post-call submission is invoked exactly
\* once: the collaborator is not called again when the effect runs again
\* for the same FINISHED state, nor after the first call has settled.
C1_SubmittedOncePerTerminalState ==
  finishes = 1 => submitted <= 1

\* C2: a practice session whose call ends once submits the transcript as
\* accumulated (N fragments give length N); on success the feedback view is
\* scheduled exactly once and the home view never; whatever happens, at most
\* one navigation is scheduled for the terminal state.
C2_PracticeNavigatesOnce ==
  (type = "practice" /\ IsSome(userId) /\ IsSome(interviewId) /\ finishes = 1) =>
    /\ scheduled.home + scheduled.feedback <= 1
    /\ (lastOp.name = "effect" /\ lastOp.result = "submitted") =>
         inflight[Len(inflight)].transcript = messages
    /\ (lastOp.name = "settled" /\ lastOp.success) =>
         scheduled.feedback = 1 /\ scheduled.home = 0

\* C3: whenever the terminal-state handler ends without success, an error
\* message is shown and a navigation to the home view is scheduled.
C3_FailureShowsErrorAndGoesHome ==
  ( \/ (lastOp.name = "effect" /\ lastOp.result = "failed")
    \/ (lastOp.name = "settled" /\ ~lastOp.success) ) =>
    /\ error # None
    /\ \E t \in timers : t.dest = "home"

\* C4: once the call is FINISHED the view eventually navigates away, given
\* that collaborators settle and timers fire.
C4_FinishedLeadsToNavigation ==
  (callStatus = "FINISHED") ~> (location # "session")

C4_Witness ==
  /\ callStatus = "FINISHED"
  /\ lastOp.name = "timer"
  /\ location = "home"
  /\ error # None

\* C5 as claimed: every change of callStatus is a step of the chain
\* INACTIVE -> CONNECTING -> ACTIVE -> FINISHED, or a return to INACTIVE made
\* by a call attempt (the click on Call or the failure of its start request).
C5_ChainOnly ==
  [][callStatus' # callStatus =>
       \/ callStatus = "INACTIVE" /\ callStatus' = "CONNECTING"
       \/ callStatus = "CONNECTING" /\ callStatus' = "ACTIVE"
       \/ callStatus = "ACTIVE" /\ callStatus' = "FINISHED"
       \/ /\ callStatus' = "INACTIVE"
          /\ lastOp'.name \in {"handleCall", "start-rejected"}]_vars

\* C5 as amended: every change of callStatus is made by the task that owns
\* the target state, from whatever state the view is in: CONNECTING by a
\* click on Call, ACTIVE by call-start, FINISHED by call-end, by a click on
\* End or by an end-of-meeting error, INACTIVE by any other error event or
\* by a failed start request.
C5_ChangesByOwner ==
  [][callStatus' # callStatus =>
       \/ /\ callStatus' = "CONNECTING"
          /\ lastOp'.name = "handleCall"
          /\ callStatus \in {"INACTIVE", "FINISHED"}
       \/ /\ callStatus' = "ACTIVE"
          /\ lastOp'.name = "call-start"
       \/ /\ callStatus' = "FINISHED"
          /\ \/ lastOp'.name = "call-end"
             \/ lastOp'.name = "handleDisconnect" /\ callStatus = "ACTIVE"
             \/ lastOp'.name = "error" /\ IsMeetingEnded(lastOp'.error)
       \/ /\ callStatus' = "INACTIVE"
          /\ \/ lastOp'.name = "start-rejected"
             \/ lastOp'.name = "error" /\ ~IsMeetingEnded(lastOp'.error)]_vars

C5_Witness ==
  /\ lastOp.name = "handleCall"
  /\ lastOp.from = "FINISHED"
  /\ callStatus = "CONNECTING"

\* the end-of-meeting condition as the specification words it: errorMsg
\* "Meeting has ended" at top level or under error, or a string or a message
\* containing that text
CarriesEndOfMeeting(e) ==
  \/ e.errorMsg = Some(MeetingHasEnded)
  \/ e.nested = Some(MeetingHasEnded)
  \/ (e.kind = "string" /\ Includes(The(e.str), MeetingHasEnded))
  \/ (IsSome(e.message) /\ Includes(The(e.message), MeetingHasEnded))

\* C6: a click on Call leaves CONNECTING and issues one start request; when
\* that request fails the error goes through handleVapiError (a message is
\* shown unless the error is the end of meeting) and the state ends INACTIVE
\* for every error value, the end of meeting included.
C6_StartThenFailureIsInactive ==
  [][/\ lastOp'.name = "handleCall" =>
          /\ callStatus' = "CONNECTING"
          /\ startPending' = startPending + 1
     /\ lastOp'.name = "start-rejected" =>
          /\ callStatus' = "INACTIVE"
          /\ startPending' = startPending - 1
          /\ CarriesEndOfMeeting(lastOp'.error) => error' = error
          /\ ~CarriesEndOfMeeting(lastOp'.error) => IsSome(error')]_vars

C6_Witness ==
  /\ lastOp.name = "start-rejected"
  /\ lastOp.error = StrError(WrappedMeetingHasEnded)
  /\ callStatus = "INACTIVE"
  /\ error = None

\* C7: an error event carrying the end-of-meeting condition sets FINISHED,
\* never INACTIVE, and leaves the error message as it was.
C7_EndOfMeetingFinishes ==
  [][(lastOp'.name = "error" /\ CarriesEndOfMeeting(lastOp'.error)) =>
       /\ callStatus' = "FINISHED"
       /\ error' = error]_vars

C7_Witness ==
  /\ lastOp.name = "error"
  /\ lastOp.error = ObjError(None, None, Some(WrappedMeetingHasEnded))
  /\ callStatus = "FINISHED"
  /\ error = Some(Boom)

\* C8: every error event that is not the end of meeting sets INACTIVE and
\* a non-empty error message, whatever the shape of the error value.
C8_OtherErrorsShowMessage ==
  (lastOp.name = "error" /\ ~CarriesEndOfMeeting(lastOp.error)) =>
    /\ callStatus = "INACTIVE"
    /\ IsSome(error)
    /\ The(error) # <<>>

\* C9: a click on End leaves FINISHED whether vapi.stop() returns or throws,
\* with no call-end event needed.
C9_DisconnectFinishes ==
  lastOp.name = "handleDisconnect" => callStatus = "FINISHED"

C9_Witness ==
  /\ lastOp.name = "handleDisconnect"
  /\ ~lastOp.stopThrows
  /\ callStatus = "FINISHED"

\* C10: call-start sets ACTIVE and call-end sets FINISHED; neither changes
\* the transcript, the interview parameters, the speaking indicator or the
\* error message.
C10_CallEventsOnlySetStatus ==
  [][/\ lastOp'.name = "call-start" => callStatus' = "ACTIVE"
     /\ lastOp'.name = "call-end" => callStatus' = "FINISHED"
     /\ lastOp'.name \in {"call-start", "call-end"} =>
          UNCHANGED <<messages, interviewData, isSpeaking, error>>]_vars

C10_Witness ==
  /\ lastOp.name = "call-end"
  /\ callStatus = "FINISHED"
  /\ messages # <<>>
  /\ interviewData # DefaultInterviewData
  /\ isSpeaking
  /\ error # None

\* C11: the transcript is the sequence of final fragments in the order of
\* receipt: a final fragment is appended at the end, and nothing else ever
\* changes the transcript.
C11_TranscriptAppendOnly ==
  [][/\ messages' # messages =>
          /\ lastOp'.name = "message"
          /\ messages' = Append(messages,
                                [role |-> lastOp'.message.role,
                                 content |-> The(lastOp'.message.transcript)])
     /\ ( /\ lastOp'.name = "message"
          /\ lastOp'.message.type = "transcript"
          /\ lastOp'.message.transcriptType = "final" ) =>
          Len(messages') = Len(messages) + 1]_vars

C11_Witness ==
  /\ Len(messages) = 2
  /\ messages[1].content = SpecFragment
  /\ messages[2].content # SpecFragment
  /\ callStatus = "FINISHED"
  /\ lastOp.name = "message"

\* C12: at most one post-call submission is in flight: the effect starts
\* none while one awaits its collaborator, and no call is started then.
C12_OneSubmissionInFlight ==
  [][/\ Len(inflight') <= 1
     /\ (lastOp'.name = "effect" /\ lastOp'.result = "submitted") =>
          inflight = <<>>
     /\ lastOp'.name = "handleCall" =>
          (inflight = <<>> /\ ~isSubmitting)]_vars

C12_Witness ==
  /\ Len(inflight) = 1
  /\ inflight[1].kind = "practice"
  /\ inflight[1].transcript # messages
  /\ lastOp.name = "effect"
  /\ lastOp.result = "skipped"

\* C19: from the default parameters, the fragment of the worked example
\* gives role "Backend Developer", level "senior", type "technical",
\* amount 7 and a techstack containing "react" and "node".
C19_WorkedExampleExtractsAll ==
  [][( /\ lastOp'.name = "message"
       /\ lastOp'.message.transcriptType = "final"
       /\ lastOp'.message.transcript = Some(SpecFragment)
       /\ type = "generate"
       /\ interviewData = DefaultInterviewData ) =>
       /\ interviewData'.role = "Backend Developer"
       /\ interviewData'.level = "senior"
       /\ interviewData'.type = "technical"
       /\ interviewData'.amount = 7
       /\ Includes(interviewData'.techstack, <<"r","e","a","c","t">>)
       /\ Includes(interviewData'.techstack, <<"n","o","d","e">>)]_vars

\* C20: a message that is not a final transcript changes neither the
\* transcript, the interview parameters, callStatus, the speaking indicator
\* nor the error message.
C20_OtherMessagesChangeNothing ==
  [][( /\ lastOp'.name = "message"
       /\ ~( /\ lastOp'.message.type = "transcript"
             /\ lastOp'.message.transcriptType = "final" ) ) =>
       UNCHANGED <<messages, interviewData, callStatus, isSpeaking, error>>]_vars

C20_Witness ==
  /\ lastOp.name = "message"
  /\ lastOp.message.transcriptType = "partial"
  /\ type = "generate"
  /\ messages # <<>>
  /\ isSpeaking
  /\ callStatus = "ACTIVE"

\* C13: every document of "interviews" has a non-empty list of questions,
\* whatever text the language model returned.
C13_QuestionsNeverEmpty ==
  \A k \in 1..Len(interviews) : Len(interviews[k].questions) > 0

\* a string fit to be read aloud: none of the characters the sanitisation
\* removes, single spaces as the only whitespace, none at either end
Sanitised(q) ==
  /\ \A k \in 1..Len(q) :
       q[k] \notin MarkupChars \cup {"*", "/", "\\", "\n", "\r", "\t"}
  /\ \A k \in 1..(Len(q) - 1) : ~(q[k] = " " /\ q[k + 1] = " ")
  /\ q # <<>> => (q[1] # " " /\ q[Len(q)] # " ")

\* the arrays of strings written somewhere inside text
EmbeddedArrays(text) ==
  { JSONParse(SubSeq(text, a, b)).v :
      <<a, b>> \in { p \in (1..Len(text)) \X (1..Len(text)) :
                       /\ p[1] < p[2]
                       /\ text[p[1]] = "["
                       /\ text[p[2]] = "]"
                       /\ JSONParse(SubSeq(text, p[1], p[2])).ok
                       /\ AllStrings(JSONParse(SubSeq(text, p[1], p[2])).v) } }

\* the text is a JSON array of strings
IsArrayOfStrings(text) ==
  /\ JSONParse(text).ok
  /\ IsArray(JSONParse(text).v)
  /\ AllStrings(JSONParse(text).v)

\* the text has neither an array nor a quoted line to recover
NoStructure(text) ==
  \A k \in 1..Len(text) : text[k] \notin {"[", "]", "\""}

Readable(bodyText) ==
  JSONParse(bodyText).ok /\ JSONParse(bodyText).v # JNull

\* the request carries a userid that is a non-empty string
HasUserid(bodyText) ==
  /\ Readable(bodyText)
  /\ JSONParse(bodyText).v.t = "object"
  /\ \E k \in 1..Len(JSONParse(bodyText).v.v) :
       /\ JSONParse(bodyText).v.v[k].key = BodyKey.userid
       /\ JSONParse(bodyText).v.v[k].value.t = "string"
       /\ JSONParse(bodyText).v.v[k].value.v # <<>>

\* what POST does once the request is accepted: 500 when the language model
\* or the write fails, else success with the id of the one document added
AcceptedRequestIsServed ==
  [][lastOp'.name = "POST" =>
       /\ (HasUserid(lastOp'.body) /\ (lastOp'.llm = None \/ lastOp'.addThrows)) =>
            /\ lastOp'.status = 500
            /\ ~lastOp'.success
            /\ interviews' = interviews
       /\ (HasUserid(lastOp'.body) /\ lastOp'.llm # None /\ ~lastOp'.addThrows) =>
            /\ lastOp'.success
            /\ lastOp'.llmCalled
            /\ Len(interviews') = Len(interviews) + 1
            /\ lastOp'.interviewId = Some(Len(interviews'))
       /\ lastOp'.success <=> interviews' # interviews]_vars

\* C17 as claimed: POST answers 400 without calling the language model
\* whenever the request has no userid, 500 when the language model or the
\* write fails, and success with the id of the one document it added
\* otherwise; a document is added exactly when the answer is a success.
C17_PostResponses ==
  /\ AcceptedRequestIsServed
  /\ [][lastOp'.name = "POST" =>
          (~HasUserid(lastOp'.body) =>
             /\ lastOp'.status = 400
             /\ ~lastOp'.success
             /\ ~lastOp'.llmCalled
             /\ interviews' = interviews)]_vars

\* C17 as amended: a request whose body JSON cannot read, or is null, is
\* answered 500; a readable body without userid is answered 400; neither
\* calls the language model nor adds a document; the rest as claimed.
C17_PostResponsesReadable ==
  /\ AcceptedRequestIsServed
  /\ [][lastOp'.name = "POST" =>
          (~HasUserid(lastOp'.body) =>
             /\ lastOp'.status = IF Readable(lastOp'.body) THEN 400 ELSE 500
             /\ ~lastOp'.success
             /\ ~lastOp'.llmCalled
             /\ interviews' = interviews)]_vars

C17_Witness ==
  /\ lastOp.name = "POST"
  /\ lastOp.body = PostBody.blankUser
  /\ lastOp.status = 400
  /\ Len(interviews) = 1

\* the entries of a document's category list
CategoryEntries(doc) ==
  {doc.categoryScores.v[i] : i \in 1..Len(doc.categoryScores.v)}

\* an entry's score is a number of [0,100]
ScoreInRange(entry) ==
  /\ IsSome(Prop(entry, FeedbackKey.score))
  /\ The(Prop(entry, FeedbackKey.score)).t = "number"
  /\ The(Prop(entry, FeedbackKey.score)).v \in 0..100

\* C15: every Feedback record persisted by createFeedback has a category
\* list that contains the five fixed category names, each with a score in
\* [0,100], whatever text the language model returned.
C15_FiveCategoriesInRange ==
  \A k \in 1..Len(feedback) :
    /\ \A name \in {CategoryNames[i] : i \in DOMAIN CategoryNames} :
         \E entry \in CategoryEntries(feedback[k]) :
           Prop(entry, FeedbackKey.name) = Some(JStr(name)) /\ ScoreInRange(entry)
    /\ \A entry \in CategoryEntries(feedback[k]) : ScoreInRange(entry)

\* the text cannot be parsed as JSON, or lacks a numeric totalScore or a
\* categoryScores array
Malformed(text) ==
  LET parsed == JSONParse(RemoveFences(Trim(text)))
  IN \/ ~parsed.ok
     \/ Prop(parsed.v, FeedbackKey.totalScore) = None
     \/ The(Prop(parsed.v, FeedbackKey.totalScore)).t # "number"
     \/ Prop(parsed.v, FeedbackKey.categoryScores) = None
     \/ The(Prop(parsed.v, FeedbackKey.categoryScores)).t # "array"

\* the fixed neutral feedback: totalScore 50, the five categories at 50
\* with the limited-assessment comment, and the limited-assessment notes
IsNeutralFeedback(doc) ==
  /\ doc.totalScore = JNum(50)
  /\ Len(doc.categoryScores.v) = 5
  /\ \A name \in {CategoryNames[i] : i \in DOMAIN CategoryNames} :
       \E entry \in CategoryEntries(doc) :
         /\ Prop(entry, FeedbackKey.name) = Some(JStr(name))
         /\ Prop(entry, FeedbackKey.score) = Some(JNum(50))
         /\ Prop(entry, FeedbackKey.comment) = Some(JStr(FeedbackNote.limitedAssessment))
  /\ doc.strengths = JArr(<<JStr(FeedbackNote.unableToAssess)>>)
  /\ doc.areasForImprovement = JArr(<<JStr(FeedbackNote.needMoreSubstantial)>>)
  /\ doc.finalAssessment = JStr(FeedbackNote.unableToProvide)

\* the call names an interview, a user and a transcript, and Firestore
\* accepts its write
WriteSucceeds(op, docs) ==
  /\ op.params.interviewId # ""
  /\ op.params.userId # ""
  /\ IsSome(op.params.transcript)
  /\ ~op.writeThrows
  /\ IsSome(op.params.feedbackId) => The(op.params.feedbackId) \in 1..Len(docs)

\* C16: malformed output of the language model is never a failure of
\* createFeedback: when the text cannot be parsed as JSON, or lacks a
\* numeric totalScore or a categoryScores array, and the write goes
\* through, createFeedback persists the fixed neutral feedback and returns
\* success with a feedbackId.
C16_MalformedOutputAbsorbed ==
  [][(/\ lastOp'.name = "createFeedback"
      /\ IsSome(lastOp'.llm)
      /\ Malformed(The(lastOp'.llm))
      /\ WriteSucceeds(lastOp', feedback)) =>
       /\ lastOp'.success
       /\ IsSome(lastOp'.feedbackId)
       /\ The(lastOp'.feedbackId) \in 1..Len(feedback')
       /\ IsNeutralFeedback(feedback'[The(lastOp'.feedbackId)])
       /\ feedback'[The(lastOp'.feedbackId)].interviewId = lastOp'.params.interviewId
       /\ feedback'[The(lastOp'.feedbackId)].userId = lastOp'.params.userId]_vars

\* a text with a string for totalScore has overwritten a record with the
\* neutral feedback, and a text that is no JSON has created one
C16_Witness ==
  /\ lastOp.name = "createFeedback"
  /\ lastOp.llm = Some(FeedbackText.stringScore)
  /\ lastOp.success
  /\ lastOp.params.feedbackId = Some(1)
  /\ IsNeutralFeedback(feedback[1])
  /\ Len(feedback) = 2
  /\ IsNeutralFeedback(feedback[2])

\* C18: feedback is last-write-wins per (interview, user) pair.  A
\* successful createFeedback with a feedbackId overwrites the record with
\* that identifier and returns the same identifier without creating a
\* record; one without a feedbackId creates exactly one record; and
\* getFeedbackByInterviewId returns the most recent write for the pair,
\* null when there is none.
C18_LastWriteWins ==
  [][/\ (lastOp'.name = "createFeedback" /\ lastOp'.success) =>
          IF IsSome(lastOp'.params.feedbackId)
          THEN /\ lastOp'.feedbackId = lastOp'.params.feedbackId
               /\ Len(feedback') = Len(feedback)
               /\ \A k \in 1..Len(feedback) :
                    IF k = The(lastOp'.params.feedbackId)
                    THEN /\ feedback'[k].createdAt > feedback[k].createdAt
                         /\ feedback'[k].interviewId = lastOp'.params.interviewId
                         /\ feedback'[k].userId = lastOp'.params.userId
                    ELSE feedback'[k] = feedback[k]
          ELSE /\ Len(feedback') = Len(feedback) + 1
               /\ lastOp'.feedbackId = Some(Len(feedback'))
               /\ \A k \in 1..Len(feedback) : feedback'[k] = feedback[k]
               /\ feedback'[Len(feedback')].interviewId = lastOp'.params.interviewId
               /\ feedback'[Len(feedback')].userId = lastOp'.params.userId
     /\ lastOp'.name = "getFeedbackByInterviewId" =>
          LET pair == [interviewId |-> lastOp'.interviewId,
                       userId |-> lastOp'.userId]
          IN IF pair \in FeedbackPairs
             THEN lastOp'.result = lastWrite[pair]
             ELSE lastOp'.result = None]_vars

\* a pair has two records, the older one was overwritten last, and
\* getFeedbackByInterviewId returns it
C18_Witness ==
  /\ lastOp.name = "getFeedbackByInterviewId"
  /\ Len(feedback) >= 2
  /\ feedback[1].interviewId = feedback[2].interviewId
  /\ feedback[1].userId = feedback[2].userId
  /\ feedback[1].createdAt > feedback[2].createdAt
  /\ lastOp.userId = feedback[1].userId
  /\ IsSome(lastOp.result)
  /\ The(lastOp.result).id = 1

\* C21: final transcript fragments are forwarded to the Field Extractor
\* only when the purpose is "generate"; in a practice session the
\* Interview Parameters keep their default values through every event,
\* while the fragment is still appended to the transcript.
C21_ExtractorOnlyWhenGenerating ==
  [][/\ type = "practice" => interviewData' = DefaultInterviewData
     /\ (lastOp'.name = "message" /\ IsFinalTranscript(lastOp'.message)) =>
          /\ messages' = Append(messages,
                                [role |-> lastOp'.message.role,
                                 content |-> The(lastOp'.message.transcript)])
          /\ type = "generate" =>
               interviewData' =
                 extractDataFromMessage(lastOp'.message.transcript, interviewData)]_vars

\* a practice session has received a fragment that names a role, and the
\* Interview Parameters are the default ones
C21_Witness ==
  /\ type = "practice"
  /\ lastOp.name = "message"
  /\ IsFinalTranscript(lastOp.message)
  /\ extractDataFromMessage(lastOp.message.transcript, DefaultInterviewData)
       # DefaultInterviewData
  /\ messages # <<>>
  /\ messages[Len(messages)].content = The(lastOp.message.transcript)
  /\ interviewData = DefaultInterviewData

\* C22: speech-start sets the speaking indicator and speech-end clears it;
\* neither changes the lifecycle state, the transcript, the Interview
\* Parameters or the error message.
C22_SpeechTogglesIndicatorOnly ==
  [][/\ lastOp'.name = "speech-start" => isSpeaking'
     /\ lastOp'.name = "speech-end" => ~isSpeaking'
     /\ lastOp'.name \in {"speech-start", "speech-end"} =>
          UNCHANGED <<callStatus, messages, interviewData, error>>]_vars

\* speech-end has cleared the indicator during an active call that has a
\* transcript and an error message
C22_Witness ==
  /\ lastOp.name = "speech-end"
  /\ ~isSpeaking
  /\ callStatus = "ACTIVE"
  /\ messages # <<>>
  /\ IsSome(error)

\* the second level fails: no bracketed span, or one that is no array of
\* strings
BracketExtractionFails(text) ==
  \/ ~Truthy(BracketMatch(text))
  \/ ~JSONParse(<<"[">> \o The(BracketMatch(text)) \o <<"]">>).ok
  \/ ~AllStrings(JSONParse(<<"[">> \o The(BracketMatch(text)) \o <<"]">>).v)

\* the third level fails: no line looks like a quoted string
QuotedLineFilteringFails(text) == QuotedLines(SplitLines(text)) = <<>>

\* C23: the recovery levels of parseQuestions are attempted in the order
\* direct parse, bracket extraction, quoted-line filtering, fallback, each
\* whenever every earlier one has failed: quoted-line filtering gives the
\* result when the two levels before it have failed and it has not, and
\* the fallback is what is returned when all three have failed.
C23_EveryLevelAttempted ==
  (lastOp.name = "POST" /\ IsSome(lastOp.parsed)) =>
    LET text == The(lastOp.llm)
        result == The(lastOp.parsed)
    IN /\ ~result.threw
       /\ ( /\ ~IsArrayOfStrings(text)
            /\ BracketExtractionFails(text)
            /\ ~QuotedLineFilteringFails(text) ) =>
              result.questions = sanitizeQuestions(QuotedLines(SplitLines(text)))
       /\ ( /\ ~IsArrayOfStrings(text)
            /\ BracketExtractionFails(text)
            /\ QuotedLineFilteringFails(text) ) =>
              result.questions = sanitizeQuestions(<<Trim(text)>>)

\* C24: role and level are first-match-wins: once a fragment has set role
\* (respectively level), no later fragment changes it.
C24_RoleAndLevelFirstMatchWins ==
  [][/\ interviewData.role # "" => interviewData'.role = interviewData.role
     /\ interviewData.level # "" => interviewData'.level = interviewData.level]_vars

\* a record with no dimension set, and what the extractor makes of one
\* fragment alone
BlankInterviewData ==
  [role |-> "", type |-> "", level |-> "", techstack |-> <<>>, amount |-> 0]

MatchedIn(content) == extractDataFromMessage(Some(content), BlankInterviewData)

\* the positions of the transcript whose fragment matched a type, a tech stack
TypeMatches == {k \in 1..Len(messages) : MatchedIn(messages[k].content).type # ""}

TechMatches == {k \in 1..Len(messages) : MatchedIn(messages[k].content).techstack # <<>>}

Last(ks) == CHOOSE k \in ks : \A h \in ks : h <= k

\* C25: type and techstack are last-match-wins: after any sequence of
\* fragments type is the value matched in the last fragment that matched
\* a type keyword and techstack the comma-joined keywords of the last
\* fragment that matched the tech-stack dimension, replacing earlier
\* values; fragments that match nothing leave the dimension unchanged.
C25_TypeAndTechLastMatchWins ==
  type = "generate" =>
    /\ interviewData.type =
         IF TypeMatches = {} THEN DefaultInterviewData.type
         ELSE MatchedIn(messages[Last(TypeMatches)].content).type
    /\ interviewData.techstack =
         IF TechMatches = {} THEN DefaultInterviewData.techstack
         ELSE MatchedIn(messages[Last(TechMatches)].content).techstack

\* the tech stack of one fragment was replaced by that of a later one
C25_Witness ==
  /\ type = "generate"
  /\ Len(messages) = 2
  /\ messages[1].content = Fragment.vueAndNode
  /\ messages[2].content = Fragment.react
  /\ interviewData.techstack = <<"r","e","a","c","t">>

\* C26: the keyword checks are case-insensitive: two fragments that differ
\* only in letter case give the same Interview Parameters from the same
\* starting record.
C26_CaseInsensitive ==
  [][(lastOp'.name = "message" /\ IsFinalTranscript(lastOp'.message)) =>
       \A k \in DOMAIN Fragment :
         ToLowerCase(Fragment[k]) = ToLowerCase(The(lastOp'.message.transcript)) =>
           interviewData' = extractDataFromMessage(Some(Fragment[k]), interviewData)]_vars

\* C27: for every question the sanitization's output has none of "/", "*",
\* backslash, "_" and the other markup characters, no run of two or more
\* whitespace characters and no leading or trailing whitespace; and
\* sanitizing a sanitized list returns it unchanged.
C27_SanitizedAndIdempotent ==
  lastOp.name = "sanitizeQuestions" =>
    /\ Len(lastOp.result) = Len(lastOp.questions)
    /\ \A k \in 1..Len(lastOp.result) : Sanitised(lastOp.result[k])
    /\ sanitizeQuestions(lastOp.result) = lastOp.result

\* a question with leading white space, a slash and an underscore has been
\* sanitized
C27_Witness ==
  /\ lastOp.name = "sanitizeQuestions"
  /\ lastOp.questions = << <<" ", "a", "/", "_">> >>
  /\ lastOp.result = << <<"a", " ", "o", "r">> >>

\* C28: the transcript passed to a feedback submission is the complete
\* session transcript at the moment the submission is issued, in receipt
\* order; starting a call never clears the transcript, and fragments that
\* arrive after the submission was issued are not part of it.
C28_SubmissionCarriesTranscript ==
  [][/\ (type = "practice" /\ lastOp'.name = "effect"
          /\ lastOp'.result = "submitted") =>
          /\ messages' = messages
          /\ inflight' = Append(inflight, [kind |-> "practice",
                                           transcript |-> messages])
     /\ lastOp'.name = "handleCall" => messages' = messages
     /\ lastOp'.name = "message" => inflight' = inflight]_vars

\* a submission was issued with a transcript of one fragment, and a
\* second fragment has arrived since
C28_Witness ==
  /\ type = "practice"
  /\ lastOp.name = "message"
  /\ inflight # <<>>
  /\ Len(messages) = 2
  /\ Head(inflight).transcript = <<messages[1]>>

\* C29: every Feedback record that createFeedback persists and reports as
\* success passes the completeness check of the feedback view, for every
\* total score in [0,100], 0 included.
C29_PersistedFeedbackIsComplete ==
  \A k \in 1..Len(feedback) :
    feedback[k].totalScore.v \in 0..100 => FeedbackIsComplete(feedback[k])

\* C30: signUp never overwrites an existing user record: a document of the
\* collection "users" that exists is left as it is by every step of every
\* call, two interleaved calls for the same uid included.
C30_NoOverwrite ==
  [][\A uid \in Uids : IsSome(users[uid]) => users'[uid] = users[uid]]_vars

=============================================================================
